---- MODULE Spec2Model ----
(***************************************************************************)
(* A model of the XPather port of kolmafia-stubs (src/src/lib/xpather.ts): *)
(* the tokenizer of the XPather constructor, the bracket matcher           *)
(* findClosingIndex, and the mutually recursive evaluator evaluateAgainst  *)
(* / evaluateFunction / filterByCondition / getElementsByName, run against *)
(* small DOM trees.                                                        *)
(*                                                                         *)
(* Strings are sequences of one-character strings, so that the tokenizer,  *)
(* trim(), the literal classifiers and parseInt/parseFloat can be modelled *)
(* character by character.  Token indices are 0-based as in the source:    *)
(* Tok(ta, i) is tokenArray[i].                                            *)
(***************************************************************************)
EXTENDS Integers, Sequences, FiniteSets, TLC

\* dom, el and expression are the document, the element and the expression of
\* one run; tokenArray the tokens of the XPather; result what the evaluation
\* returned or threw; pc where the run stands; closingCall a call of
\* findClosingIndex made on its own; callStack the calls of the evaluator that
\* are open, the running one last, when the evaluation is followed call by
\* call; steps the number of steps the run has taken.
VARIABLES dom, el, expression, tokenArray, result, pc, closingCall, callStack, steps

vars == <<dom, el, expression, tokenArray, result, pc, closingCall, callStack, steps>>

\* ------------------------------------------------------------------------
\* Bounds of the model
\* ------------------------------------------------------------------------

\* Largest number of element nodes in a document tree.
MaxNodes == 3

\* Largest integer literal k used in positional predicates [k], [position()=k].
MaxK == 3

\* ------------------------------------------------------------------------
\* Characters and strings
\* ------------------------------------------------------------------------

Digits == <<"0", "1", "2", "3", "4", "5", "6", "7", "8", "9">>

IsDigit(c) == \E i \in 1..Len(Digits) : Digits[i] = c

DigitValue(c) == (CHOOSE i \in 1..Len(Digits) : Digits[i] = c) - 1

\* The characters String.prototype.trim removes (of those the model uses).
IsSpace(c) == c = " "

RECURSIVE TrimStart(_)
TrimStart(s) ==
  IF s /= <<>> /\ IsSpace(Head(s)) THEN TrimStart(Tail(s)) ELSE s

RECURSIVE TrimEnd(_)
TrimEnd(s) ==
  IF s /= <<>> /\ IsSpace(s[Len(s)]) THEN TrimEnd(SubSeq(s, 1, Len(s) - 1)) ELSE s

\* String.prototype.trim
Trim(s) == TrimEnd(TrimStart(s))

UpperCase == <<"X", "Y">>
LowerCase == <<"x", "y">>

LowerChar(c) ==
  IF \E i \in 1..Len(UpperCase) : UpperCase[i] = c
  THEN LowerCase[CHOOSE i \in 1..Len(UpperCase) : UpperCase[i] = c]
  ELSE c

\* String.prototype.toLowerCase
toLowerCase(s) == [i \in 1..Len(s) |-> LowerChar(s[i])]

RECURSIVE Join(_)
\* Array.prototype.join('') of a list of strings
Join(ss) == IF ss = <<>> THEN <<>> ELSE Head(ss) \o Join(Tail(ss))

\* ------------------------------------------------------------------------
\* Tokenizer (the XPather constructor)
\* ------------------------------------------------------------------------

Delimiters == {"/", "(", ")", "[", "]", "\"", "'", "=", "<", ">"}

RECURSIVE Split(_, _, _)
\* expression.split(/([/()[\]"'=<>])/): the fragments between delimiters and
\* the delimiters themselves, empty fragments included.
Split(s, cur, acc) ==
  IF s = <<>> THEN Append(acc, cur)
  ELSE IF Head(s) \in Delimiters
       THEN Split(Tail(s), <<>>, Append(Append(acc, cur), <<Head(s)>>))
       ELSE Split(Tail(s), Append(cur, Head(s)), acc)

\* new XPather(expression).tokenArray
Tokenize(s) == SelectSeq(Split(s, <<>>, <<>>), LAMBDA token : token /= <<>>)

\* tokenArray[i], 0-based
Tok(ta, i) == ta[i + 1]

\* XPather.isToken
isToken(ta, token, index) ==
  /\ index >= 0
  /\ index < Len(ta)
  /\ Trim(Tok(ta, index)) = Trim(token)

\* XPather.flatten
flatten(ta, from, to) ==
  IF from <= to THEN Join(SubSeq(ta, from + 1, to + 1)) ELSE <<>>

\* ------------------------------------------------------------------------
\* Values (XPatherResult): element | string | number | boolean
\* ------------------------------------------------------------------------

\* A DOM element, by the identity of its node.
Element(id) == [type |-> "element", id |-> id]

Str(s) == [type |-> "string", str |-> s]

Bool(b) == [type |-> "boolean", b |-> b]

\* JavaScript's NaN
NaN == [type |-> "number", nan |-> TRUE, m |-> 0, e |-> 0]

RECURSIVE Pow10(_)
Pow10(e) == IF e = 0 THEN 1 ELSE 10 * Pow10(e - 1)

RECURSIVE Num(_, _)
\* The number m / 10^e, in lowest terms of the decimal exponent, so that equal
\* numbers are equal values (1.50 = 1.5, 2.0 = 2).
Num(m, e) ==
  IF e > 0 /\ m % 10 = 0 THEN Num(m \div 10, e - 1)
  ELSE [type |-> "number", nan |-> FALSE, m |-> m, e |-> e]

\* typeof obj === 'undefined': an argument the caller did not pass.
Undefined == <<[type |-> "undefined"]>>

\* isElement
isElement(value) == value.type = "element"

\* The outcome of a call: a value-list, or the exception it threw.
Return(vals) == [threw |-> "none", vals |-> vals]

Throw(kind) == [threw |-> kind, vals |-> <<>>]

\* throwStandardException
throwStandardException == Throw("XPatherException")

\* ------------------------------------------------------------------------
\* Numeric literals
\* ------------------------------------------------------------------------

RECURSIVE AllDigitsFrom(_, _)
\* The loop of isValidInteger: every character from index i (0-based) on is a digit.
AllDigitsFrom(value, i) ==
  IF i >= Len(value) THEN TRUE
  ELSE IF ~IsDigit(value[i + 1]) THEN FALSE
  ELSE AllDigitsFrom(value, i + 1)

RECURSIVE AllDigitsOrDotFrom(_, _)
\* The loop of isValidDouble: every character from index i on is a digit or '.'.
AllDigitsOrDotFrom(value, i) ==
  IF i >= Len(value) THEN TRUE
  ELSE IF value[i + 1] /= "." /\ ~IsDigit(value[i + 1]) THEN FALSE
  ELSE AllDigitsOrDotFrom(value, i + 1)

\* isValidDouble that takes a decimal point for a first character too.
isValidDouble_leadingPoint(value) ==
  IF Len(value) > 0
  THEN LET c == value[1]
       IN IF c = "+" \/ c = "-" \/ c = " " \/ c = "." \/ IsDigit(c)
          THEN AllDigitsOrDotFrom(value, 1)
          ELSE FALSE
  ELSE FALSE

isValidDouble(value) ==
  IF Len(value) > 0
  THEN LET c == value[1]
       IN IF c = "+" \/ c = "-" \/ c = " " \/ IsDigit(c)
          THEN AllDigitsOrDotFrom(value, 1)
          ELSE FALSE
  ELSE FALSE

isValidInteger(value) ==
  IF Len(value) > 0
  THEN LET c == value[1]
       IN IF c = "+" \/ c = "-" \/ IsDigit(c)
          THEN AllDigitsFrom(value, 1)
          ELSE FALSE
  ELSE FALSE

RECURSIVE DigitPrefixLen(_)
DigitPrefixLen(s) ==
  IF s /= <<>> /\ IsDigit(Head(s)) THEN 1 + DigitPrefixLen(Tail(s)) ELSE 0

RECURSIVE DigitsValue(_)
DigitsValue(s) ==
  IF s = <<>> THEN 0
  ELSE 10 * DigitsValue(SubSeq(s, 1, Len(s) - 1)) + DigitValue(s[Len(s)])

\* parseFloat: leading white space, a sign, digits, one decimal point, digits;
\* anything after that is ignored; NaN when there is no digit.
parseFloat(s) ==
  LET t == TrimStart(s)
      signed == t /= <<>> /\ Head(t) \in {"+", "-"}
      sign == IF t /= <<>> /\ Head(t) = "-" THEN 0 - 1 ELSE 1
      u == IF signed THEN Tail(t) ELSE t
      ni == DigitPrefixLen(u)
      rest == SubSeq(u, ni + 1, Len(u))
      hasDot == rest /= <<>> /\ Head(rest) = "."
      nf == IF hasDot THEN DigitPrefixLen(Tail(rest)) ELSE 0
      allDigits == SubSeq(u, 1, ni) \o (IF hasDot THEN SubSeq(Tail(rest), 1, nf) ELSE <<>>)
  IN IF ni + nf = 0 THEN NaN ELSE Num(sign * DigitsValue(allDigits), nf)

\* parseInt (radix 10): leading white space, a sign, digits; NaN when there is
\* no digit.
parseInt(s) ==
  LET t == TrimStart(s)
      signed == t /= <<>> /\ Head(t) \in {"+", "-"}
      sign == IF t /= <<>> /\ Head(t) = "-" THEN 0 - 1 ELSE 1
      u == IF signed THEN Tail(t) ELSE t
      ni == DigitPrefixLen(u)
  IN IF ni = 0 THEN NaN ELSE Num(sign * DigitsValue(SubSeq(u, 1, ni)), 0)

\* a === b on two numbers
NumEq(a, b) == ~a.nan /\ ~b.nan /\ a.m = b.m /\ a.e = b.e

\* a < b on two numbers
NumLt(a, b) == ~a.nan /\ ~b.nan /\ a.m * Pow10(b.e) < b.m * Pow10(a.e)

RECURSIVE NatToString(_)
NatToString(n) ==
  IF n < 10 THEN <<Digits[n + 1]>>
  ELSE Append(NatToString(n \div 10), Digits[(n % 10) + 1])

RECURSIVE PadLeft(_, _)
PadLeft(s, n) == IF Len(s) >= n THEN s ELSE PadLeft(<<"0">> \o s, n)

\* String(n) of a number (decimal notation; the model has no number small
\* or large enough for the exponent notation).
NumToString(v) ==
  IF v.nan THEN <<"N", "a", "N">>
  ELSE LET abs == IF v.m < 0 THEN 0 - v.m ELSE v.m
           ds == PadLeft(NatToString(abs), v.e + 1)
           body == IF v.e = 0 THEN ds
                   ELSE SubSeq(ds, 1, Len(ds) - v.e) \o <<".">>
                        \o SubSeq(ds, Len(ds) - v.e + 1, Len(ds))
       IN (IF v.m < 0 THEN <<"-">> ELSE <<>>) \o body

\* ------------------------------------------------------------------------
\* The DOM (XPatherNode, XPatherElement, XPatherAttr)
\* ------------------------------------------------------------------------

\* Node.ELEMENT_NODE, Node.TEXT_NODE, Node.DOCUMENT_NODE
ELEMENT_NODE == 1
TEXT_NODE == 3
DOCUMENT_NODE == 9

\* A parentNode of null
Null == 0 - 1

\* The node that is the Document; the document element is node 1.
DocumentId == 0

\* The kinds of element a document tree is built from: a tag name, the
\* attributes in document order and the data of a leading text child (none
\* when empty).
ElementKinds == <<
  [nodeName |-> <<"x">>, attributes |-> <<>>, text |-> <<"t">>],
  [nodeName |-> <<"y">>,
   attributes |-> <<[name |-> <<"a">>, value |-> <<"v">>],
                    [name |-> <<"b">>, value |-> <<"v">>]>>,
   text |-> <<>>],
  [nodeName |-> <<"X">>,
   attributes |-> <<[name |-> <<"b">>, value |-> <<"w">>]>>,
   text |-> <<>>] >>

\* The parent of every element of a tree of n elements: element 1 is the
\* document element, and every other element hangs below an earlier one.
ParentVectors(n) ==
  {p \in [1..n -> 0..n] : p[1] = DocumentId /\ \A j \in 2..n : p[j] \in 1..(j - 1)}

\* The document of n elements with parents p and kinds k: nodes 1..n are the
\* elements, node n + i is the text child of element i.
MakeDom(n, p, k) ==
  LET hasText(i) == ElementKinds[k[i]].text /= <<>>
      ids == (0..n) \cup {n + i : i \in {j \in 1..n : hasText(j)}}
  IN [id \in ids |->
        IF id = DocumentId
        THEN [nodeType |-> DOCUMENT_NODE, nodeName |-> <<"#", "d">>,
              parentNode |-> Null, childNodes |-> <<1>>,
              attributes |-> <<>>, data |-> <<>>]
        ELSE IF id <= n
        THEN [nodeType |-> ELEMENT_NODE, nodeName |-> ElementKinds[k[id]].nodeName,
              parentNode |-> p[id],
              childNodes |-> (IF hasText(id) THEN <<n + id>> ELSE <<>>)
                             \o SelectSeq([j \in 1..n |-> j], LAMBDA j : p[j] = id),
              attributes |-> ElementKinds[k[id]].attributes, data |-> <<>>]
        ELSE [nodeType |-> TEXT_NODE, nodeName |-> <<"#", "t">>,
              parentNode |-> id - n, childNodes |-> <<>>,
              attributes |-> <<>>, data |-> ElementKinds[k[id - n]].text]]

\* The documents of the model.
Documents ==
  UNION {{MakeDom(n, p, k) : p \in ParentVectors(n), k \in [1..n -> 1..Len(ElementKinds)]}
         : n \in 1..MaxNodes}

\* The elements of a document.
ElementsOf(d) == {id \in DOMAIN d : d[id].nodeType = ELEMENT_NODE}

\* isElementNode
isElementNode(node) == dom[node].nodeType = ELEMENT_NODE

RECURSIVE textContent(_)
\* Node.textContent: the data of the text descendants, in document order.
textContent(node) ==
  IF dom[node].nodeType = TEXT_NODE THEN dom[node].data
  ELSE Join([i \in 1..Len(dom[node].childNodes) |-> textContent(dom[node].childNodes[i])])

\* ------------------------------------------------------------------------
\* TagNode methods
\* ------------------------------------------------------------------------

RECURSIVE AddAllFrom(_, _, _)
AddAllFrom(target, source, i) ==
  IF i > Len(source) THEN target
  ELSE AddAllFrom(IF \E j \in 1..Len(target) : target[j] = source[i]
                  THEN target ELSE Append(target, source[i]),
                  source, i + 1)

\* addAll on a Set, which keeps the order of first insertion.
addAll(target, source) == AddAllFrom(target, source, 1)

\* new Set(items), as the list Array.from gives back
NewSet(items) == addAll(<<>>, items)

\* Array.prototype.includes
includes(list, value) == \E j \in 1..Len(list) : list[j] = value

RECURSIVE FindMatchingFrom(_, _, _, _)
\* The loop of findMatchingTagNodes over el.childNodes from index i (1-based).
FindMatchingFrom(node, condition, isRecursive, i) ==
  IF i > Len(dom[node].childNodes) THEN <<>>
  ELSE LET currNode == dom[node].childNodes[i]
           here == IF isElementNode(currNode)
                   THEN (IF condition[currNode] THEN <<currNode>> ELSE <<>>)
                        \o (IF isRecursive
                            THEN FindMatchingFrom(currNode, condition, isRecursive, 1)
                            ELSE <<>>)
                   ELSE <<>>
       IN here \o FindMatchingFrom(node, condition, isRecursive, i + 1)

\* findMatchingTagNodes; condition is the callback, as a function of the element.
findMatchingTagNodes(node, condition, isRecursive) ==
  FindMatchingFrom(node, condition, isRecursive, 1)

getAllElementsList(node, isRecursive) ==
  findMatchingTagNodes(node, [e \in ElementsOf(dom) |-> TRUE], isRecursive)

getChildTagList(node) ==
  SelectSeq(dom[node].childNodes, LAMBDA item : isElementNode(item))

getElementListByName(node, findName, isRecursive) ==
  LET lowerCaseName == toLowerCase(findName)
  IN findMatchingTagNodes(node,
                          [e \in ElementsOf(dom) |->
                             toLowerCase(dom[e].nodeName) = lowerCaseName],
                          isRecursive)

\* getAttributeByName: the value, or null when the element has no such attribute.
getAttributeByName(node, attName) ==
  LET atts == dom[node].attributes
  IN IF \E i \in 1..Len(atts) : atts[i].name = attName
     THEN [isNull |-> FALSE,
           value |-> atts[CHOOSE i \in 1..Len(atts) : atts[i].name = attName].value]
     ELSE [isNull |-> TRUE, value |-> <<>>]

RECURSIVE GetAttributesFrom(_, _, _)
\* The loop of getAttributes: a later attribute of a name already seen takes
\* the place of the earlier one.
GetAttributesFrom(atts, i, acc) ==
  IF i > Len(atts) THEN acc
  ELSE LET attr == atts[i]
       IN GetAttributesFrom(atts, i + 1,
            IF \E j \in 1..Len(acc) : acc[j].name = attr.name
            THEN [j \in 1..Len(acc) |->
                    IF acc[j].name = attr.name THEN attr ELSE acc[j]]
            ELSE Append(acc, attr))

\* getAttributes that gives the values last attribute first.
getAttributes_lastFirst(node) ==
  LET map == GetAttributesFrom(dom[node].attributes, 1, <<>>)
  IN [i \in 1..Len(map) |-> map[Len(map) + 1 - i].value]

\* getAttributes that keeps one of several equal values.
getAttributes_distinct(node) ==
  LET map == GetAttributesFrom(dom[node].attributes, 1, <<>>)
  IN NewSet([i \in 1..Len(map) |-> map[i].value])

\* Object.values(getAttributes(el)): the attribute values, in order.
getAttributes(node) ==
  LET map == GetAttributesFrom(dom[node].attributes, 1, <<>>)
  IN [i \in 1..Len(map) |-> map[i].value]

\* getParent: the parent element, Null, or the plain Error thrown for a
\* parent that is not an element.
getParent(node) ==
  LET parent == dom[node].parentNode
  IN IF parent /= Null /\ dom[parent].nodeType /= ELEMENT_NODE
     THEN Throw("Error")
     ELSE Return(<<parent>>)

\* ------------------------------------------------------------------------
\* Bracket matcher
\* ------------------------------------------------------------------------

RECURSIVE FindQuoteFrom(_, _, _, _)
\* The loops of findClosingIndex for a quote: the first token from i to `to`
\* that is the same quote.
FindQuoteFrom(ta, quote, i, to) ==
  IF i > to THEN 0 - 1
  ELSE IF i < Len(ta) /\ Tok(ta, i) = <<quote>> THEN i
  ELSE FindQuoteFrom(ta, quote, i + 1, to)

RECURSIVE FindBracketFrom(_, _, _, _)
\* The loop of findClosingIndex for '(', '[' and '/': st holds isQuoteClosed,
\* isAposClosed, brackets, angleBrackets and slashes before token i.
FindBracketFrom(ta, i, to, st) ==
  IF i > to THEN 0 - 1
  ELSE LET t == IF i < Len(ta) THEN Tok(ta, i) ELSE Undefined
           open == st.isQuoteClosed /\ st.isAposClosed
           next ==
             IF t = <<"\"">> THEN [st EXCEPT !.isQuoteClosed = ~st.isQuoteClosed]
             ELSE IF t = <<"'">> THEN [st EXCEPT !.isAposClosed = ~st.isAposClosed]
             ELSE IF t = <<"(">> /\ open THEN [st EXCEPT !.brackets = st.brackets + 1]
             ELSE IF t = <<")">> /\ open THEN [st EXCEPT !.brackets = st.brackets - 1]
             ELSE IF t = <<"[">> /\ open
                  THEN [st EXCEPT !.angleBrackets = st.angleBrackets + 1]
             ELSE IF t = <<"]">> /\ open
                  THEN [st EXCEPT !.angleBrackets = st.angleBrackets - 1]
             ELSE IF t = <<"/">> /\ open /\ st.brackets = 0 /\ st.angleBrackets = 0
                  THEN [st EXCEPT !.slashes = st.slashes - 1]
             ELSE st
       IN IF /\ next.isQuoteClosed
             /\ next.isAposClosed
             /\ next.brackets = 0
             /\ next.angleBrackets = 0
             /\ next.slashes = 0
          THEN i
          ELSE FindBracketFrom(ta, i + 1, to, next)

\* XPather.findClosingIndex
findClosingIndex(ta, from, to) ==
  IF from < to
  THEN LET currToken == IF from >= 0 /\ from < Len(ta) THEN Tok(ta, from) ELSE Undefined
       IN IF currToken = <<"\"">> THEN FindQuoteFrom(ta, "\"", from + 1, to)
          ELSE IF currToken = <<"'">> THEN FindQuoteFrom(ta, "'", from + 1, to)
          ELSE IF currToken = <<"(">> \/ currToken = <<"[">> \/ currToken = <<"/">>
          THEN FindBracketFrom(ta, from + 1, to,
                 [isQuoteClosed |-> TRUE, isAposClosed |-> TRUE,
                  brackets |-> IF currToken = <<"(">> THEN 1 ELSE 0,
                  angleBrackets |-> IF currToken = <<"[">> THEN 1 ELSE 0,
                  slashes |-> IF currToken = <<"/">> THEN 1 ELSE 0])
          ELSE 0 - 1
  ELSE 0 - 1

\* ------------------------------------------------------------------------
\* Comparison
\* ------------------------------------------------------------------------

\* toText: the text of an element, String(o) of anything else.
toText(o) ==
  IF isElement(o) THEN textContent(o.id)
  ELSE IF o.type = "string" THEN o.str
  ELSE IF o.type = "number" THEN NumToString(o)
  ELSE IF o.b THEN <<"t", "r", "u", "e">>
  ELSE <<"f", "a", "l", "s", "e">>

\* The characters of the model in collation order; a letter's upper case
\* follows its lower case and differs from it at the third level only.
Collation == <<" ", "'", "\"", "#", "(", ")", "*", "+", "-", ".", "/", "<", "=",
               ">", "@", "[", "]", "0", "1", "2", "3", "4", "5", "6", "7", "8",
               "9", "a", "b", "c", "d", "e", "f", "l", "N", "n", "o", "p", "r",
               "s", "t", "u", "v", "w", "x", "y">>

Rank(c) == CHOOSE i \in 1..Len(Collation) : Collation[i] = LowerChar(c)

RECURSIVE CompareKeys(_, _)
\* Lexicographic comparison of two lists of integers: -1, 0 or 1.
CompareKeys(a, b) ==
  IF a = <<>> /\ b = <<>> THEN 0
  ELSE IF a = <<>> THEN 0 - 1
  ELSE IF b = <<>> THEN 1
  ELSE IF Head(a) < Head(b) THEN 0 - 1
  ELSE IF Head(a) > Head(b) THEN 1
  ELSE CompareKeys(Tail(a), Tail(b))

\* String.prototype.localeCompare: by the letters first, by their case next.
localeCompare(s1, s2) ==
  LET primary == CompareKeys([i \in 1..Len(s1) |-> Rank(s1[i])],
                             [i \in 1..Len(s2) |-> Rank(s2[i])])
      case(s) == [i \in 1..Len(s) |-> IF LowerChar(s[i]) = s[i] THEN 0 ELSE 1]
  IN IF primary /= 0 THEN primary ELSE CompareKeys(case(s1), case(s2))

\* evaluateLogic that compares two numbers as it does strings.
evaluateLogic_asStrings(first, second, logicOperator) ==
  IF first = Undefined \/ Len(first) = 0 \/ second = Undefined \/ Len(second) = 0
  THEN FALSE
  ELSE LET res == localeCompare(toText(first[1]), toText(second[1]))
       IN IF logicOperator = <<"=">> THEN res = 0
          ELSE IF logicOperator = <<"<">> THEN res < 0
          ELSE IF logicOperator = <<">">> THEN res > 0
          ELSE IF logicOperator = <<"<", "=">> THEN res <= 0
          ELSE IF logicOperator = <<">", "=">> THEN res >= 0
          ELSE FALSE

\* evaluateLogic
evaluateLogic(first, second, logicOperator) ==
  IF first = Undefined \/ Len(first) = 0 \/ second = Undefined \/ Len(second) = 0
  THEN FALSE
  ELSE LET elem1 == first[1]
           elem2 == second[1]
       IN IF elem1.type = "number" /\ elem2.type = "number"
          THEN IF logicOperator = <<"=">> THEN NumEq(elem1, elem2)
               ELSE IF logicOperator = <<"<">> THEN NumLt(elem1, elem2)
               ELSE IF logicOperator = <<">">> THEN NumLt(elem2, elem1)
               ELSE IF logicOperator = <<"<", "=">>
                    THEN NumLt(elem1, elem2) \/ NumEq(elem1, elem2)
               ELSE IF logicOperator = <<">", "=">>
                    THEN NumLt(elem2, elem1) \/ NumEq(elem1, elem2)
               ELSE FALSE
          ELSE LET res == localeCompare(toText(elem1), toText(elem2))
               IN IF logicOperator = <<"=">> THEN res = 0
                  ELSE IF logicOperator = <<"<">> THEN res < 0
                  ELSE IF logicOperator = <<">">> THEN res > 0
                  ELSE IF logicOperator = <<"<", "=">> THEN res <= 0
                  ELSE IF logicOperator = <<">", "=">> THEN res >= 0
                  ELSE FALSE

\* isAtt
isAtt(token) == Len(token) > 1 /\ Head(token) = "@"

\* /^[a-z][\w-]*$/i
MatchesIdentifier(s) ==
  LET letter(c) == \E i \in 1..Len(LowerCase) : LowerCase[i] = LowerChar(c)
                   \/ c \in {"a", "c", "d", "e", "i", "l", "n", "o", "p", "s", "t", "u"}
  IN /\ s /= <<>>
     /\ letter(Head(s))
     /\ \A i \in 2..Len(s) : letter(s[i]) \/ IsDigit(s[i]) \/ s[i] \in {"_", "-"}

\* isIdentifier: false whether or not the token matches.
isIdentifier(token) ==
  LET s == Trim(token)
  IN IF Len(s) > 0 /\ ~MatchesIdentifier(s) THEN FALSE ELSE FALSE

\* XPather.isFunctionCall
isFunctionCall(ta, from, to) ==
  IF ~isIdentifier(Tok(ta, from)) /\ ~isToken(ta, <<"(">>, from + 1)
  THEN FALSE
  ELSE findClosingIndex(ta, from + 1, to) > from + 1

\* ------------------------------------------------------------------------
\* Evaluator
\* ------------------------------------------------------------------------

\* The names of the supported functions
FnLast == <<"l", "a", "s", "t">>
FnPosition == <<"p", "o", "s", "i", "t", "i", "o", "n">>
FnText == <<"t", "e", "x", "t">>
FnCount == <<"c", "o", "u", "n", "t">>
FnData == <<"d", "a", "t", "a">>

RECURSIVE evaluateAgainst(_, _, _, _, _, _, _, _, _)
RECURSIVE evaluateFunction(_, _, _, _, _, _, _)
RECURSIVE EvaluateFunctionFrom(_, _, _, _, _, _, _, _, _)
RECURSIVE filterByCondition(_, _, _, _)
RECURSIVE FilterFrom(_, _, _, _, _, _)
RECURSIVE getElementsByName(_, _, _, _, _, _)
RECURSIVE AttributesFrom(_, _, _, _, _, _, _, _)
RECURSIVE ElementsFrom(_, _, _, _, _, _, _, _)
RECURSIVE ChildTagsFrom(_, _, _, _, _, _, _, _, _)

\* XPather.evaluateAgainst; obj and filterSource are value-lists or Undefined.
evaluateAgainst(ta, obj, from, to, isRecursive, position, last, isFilterContext, filterSource) ==
  IF from >= 0 /\ to < Len(ta) /\ from <= to
  THEN
    IF Trim(Tok(ta, from)) = <<>>
    THEN evaluateAgainst(ta, obj, from + 1, to, isRecursive, position, last,
                         isFilterContext, filterSource)
    ELSE IF isToken(ta, <<"(">>, from)
    THEN LET closingBracket == findClosingIndex(ta, from, to)
         IN IF closingBracket > 0
            THEN LET value == evaluateAgainst(ta, obj, from + 1, closingBracket - 1, FALSE,
                                              position, last, isFilterContext, filterSource)
                 IN IF value.threw /= "none" THEN value
                    ELSE evaluateAgainst(ta, value.vals, closingBracket + 1, to, FALSE,
                                         position, last, isFilterContext, filterSource)
            ELSE throwStandardException
    ELSE IF isToken(ta, <<"[">>, from)
    THEN LET closingBracket == findClosingIndex(ta, from, to)
         IN IF closingBracket > 0
            THEN LET value == IF obj /= Undefined
                              THEN filterByCondition(ta, obj, from + 1, closingBracket - 1)
                              ELSE Return(<<>>)
                 IN IF value.threw /= "none" THEN value
                    ELSE evaluateAgainst(ta, value.vals, closingBracket + 1, to, FALSE,
                                         position, last, isFilterContext, filterSource)
            ELSE throwStandardException
    ELSE IF isToken(ta, <<"\"">>, from) \/ isToken(ta, <<"'">>, from)
    THEN LET closingQuote == findClosingIndex(ta, from, to)
         IN IF closingQuote > from
            THEN evaluateAgainst(ta, <<Str(flatten(ta, from + 1, closingQuote - 1))>>,
                                 closingQuote + 1, to, FALSE, position, last,
                                 isFilterContext, filterSource)
            ELSE throwStandardException
    ELSE IF /\ \/ isToken(ta, <<"=">>, from)
               \/ isToken(ta, <<"<">>, from)
               \/ isToken(ta, <<">">>, from)
            /\ isFilterContext
    THEN IF /\ isToken(ta, <<"=">>, from + 1)
            /\ (isToken(ta, <<"<">>, from) \/ isToken(ta, <<">">>, from))
         THEN LET secondObject == evaluateAgainst(ta, filterSource, from + 2, to, FALSE,
                                                  position, last, isFilterContext,
                                                  filterSource)
              IN IF secondObject.threw /= "none" THEN secondObject
                 ELSE Return(<<Bool(evaluateLogic(obj, secondObject.vals,
                                                  Tok(ta, from) \o Tok(ta, from + 1)))>>)
         ELSE LET secondObject == evaluateAgainst(ta, filterSource, from + 1, to, FALSE,
                                                  position, last, isFilterContext,
                                                  filterSource)
              IN IF secondObject.threw /= "none" THEN secondObject
                 ELSE Return(<<Bool(evaluateLogic(obj, secondObject.vals, Tok(ta, from)))>>)
    ELSE IF isToken(ta, <<"/">>, from)
    THEN LET goRecursive == isToken(ta, <<"/">>, from + 1)
             from1 == IF goRecursive THEN from + 1 ELSE from
         IN IF from1 < to
            THEN LET closing == findClosingIndex(ta, from1, to) - 1
                     toIndex == IF closing <= from1 THEN to ELSE closing
                     value == evaluateAgainst(ta, obj, from1 + 1, toIndex, goRecursive, 1,
                                              last, isFilterContext, filterSource)
                 IN IF value.threw /= "none" THEN value
                    ELSE evaluateAgainst(ta, value.vals, toIndex + 1, to, FALSE, 1, last,
                                         isFilterContext, filterSource)
            ELSE throwStandardException
    ELSE IF isFunctionCall(ta, from, to)
    THEN LET closingBracketIndex == findClosingIndex(ta, from + 1, to)
             funcValue == IF obj /= Undefined
                          THEN evaluateFunction(ta, obj, from, to, position, last,
                                                isFilterContext)
                          ELSE Return(<<>>)
         IN IF funcValue.threw /= "none" THEN funcValue
            ELSE evaluateAgainst(ta, funcValue.vals, closingBracketIndex + 1, to, FALSE, 1,
                                 last, isFilterContext, filterSource)
    ELSE IF isValidInteger(Tok(ta, from))
    THEN evaluateAgainst(ta, <<parseInt(Tok(ta, from))>>, from + 1, to, FALSE, position,
                         last, isFilterContext, filterSource)
    ELSE IF isValidDouble(Tok(ta, from))
    THEN evaluateAgainst(ta, <<parseFloat(Tok(ta, from))>>, from + 1, to, FALSE, position,
                         last, isFilterContext, filterSource)
    ELSE IF obj /= Undefined
    THEN getElementsByName(ta, obj, from, to, isRecursive, isFilterContext)
    ELSE Return(<<>>)
  ELSE Return(IF obj /= Undefined THEN obj ELSE <<>>)

\* data() that emits the elements only.
dataItems_elementsOnly(argumentEvaluated) ==
  SelectSeq(argumentEvaluated, LAMBDA elem : isElement(elem))

\* The values data() emits for its evaluated argument: the elements and the
\* strings, in order.
dataItems(argumentEvaluated) ==
  SelectSeq(argumentEvaluated, LAMBDA elem : isElement(elem) \/ elem.type = "string")

\* The 1-based index (index++) of the i-th value of a forEach of
\* evaluateFunction.
functionIndex(i) == i

\* The forEach of XPather.evaluateFunction, from the i-th value of source on
\* (1-based); acc is the result so far.
EvaluateFunctionFrom(ta, source, i, from, to, position, last, isFilterContext, acc) ==
  IF i > Len(source) THEN Return(acc)
  ELSE
    LET name == Trim(Tok(ta, from))
        curr == source[i]
        index == functionIndex(i)
    IN IF name = FnLast
       THEN EvaluateFunctionFrom(ta, source, i + 1, from, to, position, last, isFilterContext,
              Append(acc, IF isFilterContext THEN Num(last, 0) ELSE Num(Len(source), 0)))
       ELSE IF name = FnPosition
       THEN EvaluateFunctionFrom(ta, source, i + 1, from, to, position, last, isFilterContext,
              Append(acc, IF isFilterContext THEN Num(position, 0) ELSE Num(index, 0)))
       ELSE IF name = FnText
       THEN EvaluateFunctionFrom(ta, source, i + 1, from, to, position, last, isFilterContext,
              IF isElement(curr) THEN Append(acc, Str(textContent(curr.id)))
              ELSE IF curr.type = "string" THEN Append(acc, curr)
              ELSE acc)
       ELSE IF name = FnCount
       THEN LET argumentEvaluated == evaluateAgainst(ta, source, from + 2, to - 1, FALSE,
                                                     position, 0, isFilterContext, Undefined)
            IN IF argumentEvaluated.threw /= "none" THEN argumentEvaluated
               ELSE EvaluateFunctionFrom(ta, source, i + 1, from, to, position, last,
                      isFilterContext, Append(acc, Num(Len(argumentEvaluated.vals), 0)))
       ELSE IF name = FnData
       THEN LET argumentEvaluated == evaluateAgainst(ta, source, from + 2, to - 1, FALSE,
                                                     position, 0, isFilterContext, Undefined)
            IN IF argumentEvaluated.threw /= "none" THEN argumentEvaluated
               ELSE EvaluateFunctionFrom(ta, source, i + 1, from, to, position, last,
                      isFilterContext,
                      acc \o dataItems(argumentEvaluated.vals))
       ELSE Throw("XPatherException")

\* evaluateFunction with the argument range cut one token short.
evaluateFunction_shortArgument(ta, source, from, to, position, last, isFilterContext) ==
  EvaluateFunctionFrom(ta, source, 1, from, to - 1, position, last, isFilterContext, <<>>)

\* evaluateFunction with position and last taken in the other order.
evaluateFunction_swapped(ta, source, from, to, position, last, isFilterContext) ==
  EvaluateFunctionFrom(ta, source, 1, from, to, last, position, isFilterContext, <<>>)

\* XPather.evaluateFunction
evaluateFunction(ta, source, from, to, position, last, isFilterContext) ==
  EvaluateFunctionFrom(ta, source, 1, from, to, position, last, isFilterContext, <<>>)

\* The index of filterByCondition without its index++: 0-based.
filterIndex_zeroBased(i) == i - 1

\* The 1-based index (index++) of the i-th value of the forEach of
\* filterByCondition.
filterIndex(i) == i

\* filterByCondition that takes a false for true, as it does a string.
filterKeeps_anyBoolean(first, index) ==
  IF first.type = "number" THEN NumEq(first, Num(index, 0)) ELSE TRUE

\* filterByCondition that takes any number for true, as it does a string.
filterKeeps_anyNumber(first, index) ==
  IF first.type = "boolean" THEN first.b ELSE TRUE

\* Whether filterByCondition keeps the value at index, given the first item
\* of its predicate's value-list.
filterKeeps(first, index) ==
  IF first.type = "boolean" THEN first.b
  ELSE IF first.type = "number" THEN NumEq(first, Num(index, 0))
  ELSE TRUE

\* filterByCondition that also keeps a value whose predicate evaluates to the
\* empty value-list.
filterKeepsList_emptyKeeps(logicValueList, index) ==
  Len(logicValueList) = 0 \/ filterKeeps(logicValueList[1], index)

\* Whether filterByCondition keeps the value at index, given its predicate's
\* value-list: an empty list drops it.
filterKeepsList(logicValueList, index) ==
  Len(logicValueList) >= 1 /\ filterKeeps(logicValueList[1], index)

\* The value-list filterByCondition evaluates the predicate against: the one
\* value under test.
filterObject(source, curr) == <<curr>>

\* The forEach of XPather.filterByCondition, from the i-th value of source on.
FilterFrom(ta, source, i, from, to, acc) ==
  IF i > Len(source) THEN Return(acc)
  ELSE
    LET curr == source[i]
        index == filterIndex(i)
        logicValueList == evaluateAgainst(ta, filterObject(source, curr), from, to, FALSE,
                                          index, Len(source), TRUE, <<curr>>)
    IN IF logicValueList.threw /= "none" THEN logicValueList
       ELSE FilterFrom(ta, source, i + 1, from, to,
                       IF filterKeepsList(logicValueList.vals, index)
                       THEN Append(acc, curr) ELSE acc)

\* XPather.filterByCondition
filterByCondition(ta, source, from, to) == FilterFrom(ta, source, 1, from, to, <<>>)

\* The loop of the attribute branch of getElementsByName over nodes, from the
\* i-th on; name is the attribute's name ("*" for all).
AttributesFrom(ta, nodes, i, name, from, to, isFilterContext, acc) ==
  IF i > Len(nodes) THEN Return(acc)
  ELSE
    LET next == nodes[i]
    IN IF isElement(next)
       THEN IF name = <<"*">>
            THEN LET r == evaluateAgainst(ta, [j \in 1..Len(getAttributes(next.id)) |->
                                                 Str(getAttributes(next.id)[j])],
                                          from + 1, to, FALSE, 1, 1, isFilterContext,
                                          Undefined)
                 IN IF r.threw /= "none" THEN r
                    ELSE AttributesFrom(ta, nodes, i + 1, name, from, to, isFilterContext,
                                        acc \o r.vals)
            ELSE LET attValue == getAttributeByName(next.id, name)
                 IN IF ~attValue.isNull
                    THEN LET r == evaluateAgainst(ta, <<Str(attValue.value)>>, from + 1, to, FALSE,
                                                  1, 1, isFilterContext, Undefined)
                         IN IF r.threw /= "none" THEN r
                            ELSE AttributesFrom(ta, nodes, i + 1, name, from, to,
                                                isFilterContext, acc \o r.vals)
                    ELSE AttributesFrom(ta, nodes, i + 1, name, from, to, isFilterContext,
                                        acc)
       ELSE throwStandardException

\* The loop over childTags in the recursive branch of getElementsByName, from
\* the j-th child on; special is isSelf || isParent || isAll.
ChildTagsFrom(ta, childTags, j, refinedSubnodes, special, from, to, isFilterContext, resultSet) ==
  IF j > Len(childTags) THEN Return(resultSet)
  ELSE
    LET childTag == Element(childTags[j])
        childrenByName == getElementsByName(ta, <<childTag>>, from, to, TRUE, isFilterContext)
    IN IF childrenByName.threw /= "none" THEN childrenByName
       ELSE ChildTagsFrom(ta, childTags, j + 1, refinedSubnodes, special, from, to,
                          isFilterContext,
                          addAll(IF ~special /\ includes(refinedSubnodes, childTag)
                                 THEN addAll(resultSet, <<childTag>>)
                                 ELSE resultSet,
                                 childrenByName.vals))

\* The loop of the element branch of getElementsByName over source, from the
\* i-th value on; index counts the elements seen before it.
ElementsFrom(ta, source, i, from, to, isRecursive, isFilterContext, resultSet) ==
  IF i > Len(source) THEN Return(resultSet)
  ELSE IF ~isElement(source[i]) THEN throwStandardException
  ELSE
    LET name == Trim(Tok(ta, from))
        node == source[i].id
        index == i
        isSelf == name = <<".">>
        isParent == name = <<".", ".">>
        isAll == name = <<"*">>
        parent == IF isParent THEN getParent(node) ELSE Return(<<>>)
        subnodes == IF isSelf THEN <<node>>
                    ELSE IF isParent
                    THEN (IF parent.vals[1] /= Null THEN parent.vals ELSE <<>>)
                    ELSE IF isAll THEN getChildTagList(node)
                    ELSE getElementListByName(node, name, FALSE)
        nodeSet == NewSet(subnodes)
        refinedSubnodes == evaluateAgainst(ta, [j \in 1..Len(nodeSet) |-> Element(nodeSet[j])],
                                           from + 1, to, FALSE, index, Len(nodeSet),
                                           isFilterContext, Undefined)
    IN IF parent.threw /= "none" THEN parent
       ELSE IF refinedSubnodes.threw /= "none" THEN refinedSubnodes
       ELSE IF isRecursive
       THEN LET special == isSelf \/ isParent \/ isAll
                children == ChildTagsFrom(ta, getChildTagList(node), 1, refinedSubnodes.vals,
                                          special, from, to, isFilterContext,
                                          IF special
                                          THEN addAll(resultSet, refinedSubnodes.vals)
                                          ELSE resultSet)
            IN IF children.threw /= "none" THEN children
               ELSE ElementsFrom(ta, source, i + 1, from, to, isRecursive, isFilterContext,
                                 children.vals)
       ELSE ElementsFrom(ta, source, i + 1, from, to, isRecursive, isFilterContext,
                         addAll(resultSet, refinedSubnodes.vals))

RECURSIVE DescendantsOf(_, _, _)
\* The nodes of the attribute branch under //: every element below an element
\* of source, once; the other values of source are passed over.
DescendantsOf(source, i, nodes) ==
  IF i > Len(source) THEN nodes
  ELSE DescendantsOf(source, i + 1,
         IF isElement(source[i])
         THEN addAll(nodes, [j \in 1..Len(getAllElementsList(source[i].id, TRUE)) |->
                               Element(getAllElementsList(source[i].id, TRUE)[j])])
         ELSE nodes)

\* XPather.getElementsByName
getElementsByName(ta, source, from, to, isRecursive, isFilterContext) ==
  LET name == Trim(Tok(ta, from))
  IN IF isAtt(name)
     THEN AttributesFrom(ta, IF isRecursive THEN DescendantsOf(source, 1, <<>>) ELSE source,
                         1, Tail(name), from, to, isFilterContext, <<>>)
     ELSE ElementsFrom(ta, source, 1, from, to, isRecursive, isFilterContext, <<>>)

\* XPather.evaluateAgainstNode
evaluateAgainstNode(ta, node) ==
  IF node = Null
  THEN Throw("XPatherException")
  ELSE evaluateAgainst(ta, <<Element(node)>>, 0, Len(ta) - 1, FALSE, 1, 0, FALSE, Undefined)

\* evaluateXPath
evaluateXPath(node, xPathExpression) ==
  evaluateAgainstNode(Tokenize(xPathExpression), node)

\* ------------------------------------------------------------------------
\* The state machine: one evaluation of an expression against an element
\* ------------------------------------------------------------------------

\* No call of findClosingIndex made on its own yet
NoCall == [from |-> 0 - 1, to |-> 0 - 1, index |-> 0 - 1]

\* No result yet
Pending == [threw |-> "pending", vals |-> <<>>]

\* The state before the XPather is constructed, for an expression of family.
InitOf(family) ==
  /\ dom \in Documents
  /\ el \in ElementsOf(dom)
  /\ expression \in family
  /\ tokenArray = <<>>
  /\ result = Pending
  /\ closingCall = NoCall
  /\ callStack = <<>>
  /\ steps = 0
  /\ pc = "new"

\* new XPather(expression)
Construct ==
  /\ pc = "new"
  /\ tokenArray' = Tokenize(expression)
  /\ pc' = "constructed"
  /\ steps' = steps + 1
  /\ UNCHANGED <<dom, el, expression, result, closingCall, callStack>>

\* evaluateAgainstNode(el)
EvaluateAgainstNode ==
  /\ pc = "constructed"
  /\ result' = evaluateAgainstNode(tokenArray, el)
  /\ pc' = "done"
  /\ steps' = steps + 1
  /\ UNCHANGED <<dom, el, expression, tokenArray, closingCall, callStack>>

Next == Construct \/ EvaluateAgainstNode

\* ------------------------------------------------------------------------
\* Expressions
\* ------------------------------------------------------------------------

\* The element names used in expressions, and those with the wildcard.
Names == {<<"x">>, <<"y">>}
Steps == Names \cup {<<"*">>}

\* //x
Desc(x) == <<"/", "/">> \o x
\* /x
Child(x) == <<"/">> \o x
\* .//x
DotDesc(x) == <<".", "/", "/">> \o x
\* //x[//y]
AbsPred(x, y) == Desc(x) \o <<"[">> \o Desc(y) \o <<"]">>
\* //x[.//y]
DotPred(x, y) == Desc(x) \o <<"[">> \o DotDesc(y) \o <<"]">>
\* f(E)
Call(f, E) == f \o <<"(">> \o E \o <<")">>
\* (E)
Paren(E) == <<"(">> \o E \o <<")">>

\* Expressions that yield elements.
ElementPaths ==
  {Desc(x) : x \in Steps} \cup {Child(x) : x \in Steps} \cup {DotDesc(x) : x \in Steps}
  \cup {Desc(x) \o Child(y) : x, y \in Names}
  \cup {Desc(<<"x">>) \o <<"[", "@", "b", "]">>,
        Paren(Desc(<<"x">>)),
        Desc(<<"y">>) \o <<"/", ".", ".">>,
        Desc(<<"x">>) \o Desc(<<"y">>)}

\* Expressions that yield strings.
StringPaths ==
  {Desc(x) \o <<"/", "@", "b">> : x \in Steps}
  \cup {Desc(<<"*">>) \o <<"/", "@", "*">>, <<"/", "/", "@", "a">>}

\* evaluateXPath for an expression of the same XPather run against el.
Eval(E) == evaluateXPath(el, E)

\* Every value of the list is an element.
AllElements(vals) == \A i \in 1..Len(vals) : isElement(vals[i])

RECURSIVE IsBelow(_, _)
\* Element d lies below node a in the tree, by the parent pointers.
IsBelow(d, a) ==
  /\ dom[d].parentNode /= Null
  /\ (dom[d].parentNode = a \/ IsBelow(dom[d].parentNode, a))

\* Element a has a descendant element named name, letter case aside.
HasDescendantNamed(a, name) ==
  \E d \in ElementsOf(dom) :
    toLowerCase(dom[d].nodeName) = toLowerCase(name) /\ IsBelow(d, a)

\* ------------------------------------------------------------------------
\* C1
\* ------------------------------------------------------------------------

FamilyC1 == {AbsPred(x, y) : x, y \in Names} \cup {DotPred(x, y) : x, y \in Names}

SpecC1 == InitOf(FamilyC1) /\ [][Next]_vars

\* C1: //x[//y] and //x[.//y] evaluated against the same root return the same
\* value-list: the elements of //x, in order, that have at least one
\* descendant element named y.
C1_AbsolutePredicateIsScoped ==
  \A x, y \in Names :
    (pc = "done" /\ expression \in {AbsPred(x, y), DotPred(x, y)}) =>
      /\ result.threw = "none"
      /\ result = Eval(AbsPred(x, y))
      /\ result = Eval(DotPred(x, y))
      /\ result.vals = SelectSeq(Eval(Desc(x)).vals,
                                 LAMBDA v : HasDescendantNamed(v.id, y))

\* //x[//y] has kept some elements of //x and dropped others.
C1_Witness ==
  /\ pc = "done"
  /\ \E x, y \in Names :
       /\ expression = AbsPred(x, y)
       /\ result.vals /= <<>>
       /\ Len(result.vals) < Len(Eval(Desc(x)).vals)

\* ------------------------------------------------------------------------
\* C2
\* ------------------------------------------------------------------------

FamilyC2 == {Call(FnCount, E) : E \in ElementPaths}

SpecC2 == InitOf(FamilyC2) /\ [][Next]_vars

\* C2: count law: when E yields elements, count(E) evaluated against the same
\* root returns one number, the length of E's value-list.
C2_CountLaw ==
  \A E \in ElementPaths :
    (/\ pc = "done"
     /\ expression = Call(FnCount, E)
     /\ Eval(E).threw = "none"
     /\ AllElements(Eval(E).vals)) =>
      result = Return(<<Num(Len(Eval(E).vals), 0)>>)

\* count(E) has counted two elements or more.
C2_Witness ==
  /\ pc = "done"
  /\ \E E \in ElementPaths :
       /\ expression = Call(FnCount, E)
       /\ Len(Eval(E).vals) >= 2
       /\ AllElements(Eval(E).vals)
       /\ result.vals = <<Num(Len(Eval(E).vals), 0)>>

\* ------------------------------------------------------------------------
\* C3
\* ------------------------------------------------------------------------

FamilyC3 == {Call(FnData, E) : E \in ElementPaths \cup StringPaths}

SpecC3 == InitOf(FamilyC3) /\ [][Next]_vars

\* Every value of the list is an element or a string.
AllElementsOrStrings(vals) ==
  \A i \in 1..Len(vals) : isElement(vals[i]) \/ vals[i].type = "string"

\* C3: when E's value-list holds only elements and strings, data(E) returns
\* the same value-list as E: same items, same order, same length.
C3_DataIsIdentity ==
  \A E \in ElementPaths \cup StringPaths :
    (/\ pc = "done"
     /\ expression = Call(FnData, E)
     /\ Eval(E).threw = "none"
     /\ AllElementsOrStrings(Eval(E).vals)) =>
      result = Eval(E)

\* data(E) has returned two strings or more, the first two equal.
C3_Witness ==
  /\ pc = "done"
  /\ \E E \in StringPaths :
       /\ expression = Call(FnData, E)
       /\ Len(result.vals) >= 2
       /\ result.vals[1].type = "string"
       /\ result.vals[1] = result.vals[2]

\* ------------------------------------------------------------------------
\* C4
\* ------------------------------------------------------------------------

\* E/last() and E/position()
LastOf(E) == E \o <<"/">> \o FnLast \o <<"(", ")">>
PositionOf(E) == E \o <<"/">> \o FnPosition \o <<"(", ")">>

FamilyC4 ==
  {LastOf(E) : E \in ElementPaths \cup StringPaths}
  \cup {PositionOf(E) : E \in ElementPaths \cup StringPaths}

SpecC4 == InitOf(FamilyC4) /\ [][Next]_vars

KRange == (0 - 1)..MaxK

\* The literal of the integer k
IntLit(k) == NumToString(Num(k, 0))

\* E[k]
Idx(E, k) == E \o <<"[">> \o IntLit(k) \o <<"]">>
\* E[position()=k]
PosEq(E, k) == E \o <<"[">> \o FnPosition \o <<"(", ")", "=">> \o IntLit(k) \o <<"]">>
\* E[last()]
LastPred(E) == E \o <<"[">> \o FnLast \o <<"(", ")", "]">>

\* E is a parenthesised expression: a predicate after it filters the whole
\* value-list of E.
IsGrouped(E) == Head(E) = "("

RECURSIVE IsSubsequence(_, _)
\* a is b with some items left out.
IsSubsequence(a, b) ==
  IF a = <<>> THEN TRUE
  ELSE IF b = <<>> THEN FALSE
  ELSE IF Head(a) = Head(b) THEN IsSubsequence(Tail(a), Tail(b))
  ELSE IsSubsequence(a, Tail(b))

PredicatePaths ==
  {Desc(<<"x">>), Desc(<<"*">>), Child(<<"x">>), DotDesc(<<"y">>),
   Desc(<<"x">>) \o Child(<<"y">>), Paren(Desc(<<"x">>)), Paren(Desc(<<"*">>))}

FamilyC5 == {PosEq(E, k) : E \in PredicatePaths, k \in KRange}

SpecC5 == InitOf(FamilyC5) /\ [][Next]_vars

\* E[position()=k] is evaluated, for an E that yields a non-empty list of
\* elements.
C5_Case(E, k) ==
  /\ pc = "done"
  /\ expression = PosEq(E, k)
  /\ Eval(E).threw = "none"
  /\ Eval(E).vals /= <<>>
  /\ AllElements(Eval(E).vals)

\* C5 as claimed: position law: for E a non-empty list of elements and any
\* integer k, E[position()=k] has length at most 1, and equals E[k] when
\* 1 <= k <= |E|.
C5_PositionLaw ==
  \A E \in PredicatePaths, k \in KRange :
    C5_Case(E, k) =>
      /\ Len(result.vals) <= 1
      /\ (1 <= k /\ k <= Len(Eval(E).vals)) => result = Eval(Idx(E, k))

\* C5 as amended: for E a non-empty list of elements and any integer k,
\* E[position()=k] equals E[k] and is E with some elements left out; when E is
\* parenthesised it has length at most 1 and is the k-th element of E for
\* 1 <= k <= |E|.  (After a name step the predicate filters the matches of
\* each source element apart, and the result can hold one element of each.)
C5_PositionLawAmended ==
  \A E \in PredicatePaths, k \in KRange :
    C5_Case(E, k) =>
      /\ result = Eval(Idx(E, k))
      /\ result.threw = "none"
      /\ IsSubsequence(result.vals, Eval(E).vals)
      /\ IsGrouped(E) =>
           /\ Len(result.vals) <= 1
           /\ (1 <= k /\ k <= Len(Eval(E).vals)) => result.vals = <<Eval(E).vals[k]>>

\* (E)[position()=2] has picked the second of two elements or more.
C5_Witness ==
  /\ pc = "done"
  /\ \E E \in PredicatePaths :
       /\ IsGrouped(E)
       /\ C5_Case(E, 2)
       /\ Len(Eval(E).vals) >= 2
       /\ result.vals = <<Eval(E).vals[2]>>

\* ------------------------------------------------------------------------
\* C6
\* ------------------------------------------------------------------------

LastPaths ==
  PredicatePaths
  \cup {Desc(<<"*">>) \o <<"/", "@", "b">>, Paren(Desc(<<"*">>) \o <<"/", "@", "b">>)}

FamilyC6 == {LastPred(E) : E \in LastPaths}

SpecC6 == InitOf(FamilyC6) /\ [][Next]_vars

\* E[last()] is evaluated, for an E that yields a non-empty list.
C6_Case(E) ==
  /\ pc = "done"
  /\ expression = LastPred(E)
  /\ Eval(E).threw = "none"
  /\ Eval(E).vals /= <<>>

\* C6 as claimed: last law: for E a non-empty list, E[last()] equals E[n],
\* n the length of E's value-list.
C6_LastLaw ==
  \A E \in LastPaths :
    C6_Case(E) => result = Eval(Idx(E, Len(Eval(E).vals)))

\* C6 as amended: for E a non-empty list, E[last()] is not empty and is E
\* with some items left out; when E is parenthesised it equals E[n] and is
\* the last item of E alone.  (After a name step last() is the number of
\* matches of each source element, not the length of E.)
C6_LastLawAmended ==
  \A E \in LastPaths :
    C6_Case(E) =>
      /\ result.threw = "none"
      /\ result.vals /= <<>>
      /\ IsSubsequence(result.vals, Eval(E).vals)
      /\ IsGrouped(E) =>
           /\ result = Eval(Idx(E, Len(Eval(E).vals)))
           /\ result.vals = <<Eval(E).vals[Len(Eval(E).vals)]>>

\* (E)[last()] has picked the last of two items or more.
C6_Witness ==
  /\ pc = "done"
  /\ \E E \in LastPaths :
       /\ IsGrouped(E)
       /\ C6_Case(E)
       /\ Len(Eval(E).vals) >= 2
       /\ result.vals = <<Eval(E).vals[Len(Eval(E).vals)]>>

\* ------------------------------------------------------------------------
\* C7
\* ------------------------------------------------------------------------

GroupedPaths ==
  {Desc(<<"x">>), Desc(<<"*">>), DotDesc(<<"y">>), Desc(<<"x">>) \o Child(<<"y">>),
   Desc(<<"*">>) \o <<"/", "@", "b">>, PositionOf(Desc(<<"*">>))}

FamilyC7 == {Idx(Paren(E), k) : E \in GroupedPaths, k \in KRange}

SpecC7 == InitOf(FamilyC7) /\ [][Next]_vars

\* C7: in (E)[k], k an integer literal, the predicate filters the whole
\* value-list of E: the result has length at most 1, is the k-th item of E
\* when 1 <= k <= |E| and is empty otherwise.
C7_GroupedIndex ==
  \A E \in GroupedPaths, k \in KRange :
    (pc = "done" /\ expression = Idx(Paren(E), k) /\ Eval(E).threw = "none") =>
      /\ result.threw = "none"
      /\ Len(result.vals) <= 1
      /\ result.vals = IF 1 <= k /\ k <= Len(Eval(E).vals)
                       THEN <<Eval(E).vals[k]>>
                       ELSE <<>>

\* (E)[2] has picked the second of two items or more.
C7_Witness ==
  /\ pc = "done"
  /\ \E E \in GroupedPaths :
       /\ expression = Idx(Paren(E), 2)
       /\ Len(Eval(E).vals) >= 2
       /\ result.vals = <<Eval(E).vals[2]>>

\* ------------------------------------------------------------------------
\* C8
\* ------------------------------------------------------------------------

\* The expressions white space is inserted into.
SpacedPaths ==
  {Desc(<<"x">>),
   Idx(Desc(<<"x">>), 1),
   LastOf(Desc(<<"*">>)),
   Call(FnCount, Desc(<<"y">>)),
   Desc(<<"*">>) \o <<"[", "@", "b", "=", "'", "v", "'", "]">>,
   Desc(<<"x">>) \o <<"[">> \o FnPosition \o <<"(", ")", "<", "=", "1", "]">>}

\* The number of tokens among the first j that are the quote q.
QuotesBefore(ta, j, q) == Cardinality({i \in 1..j : ta[i] = <<q>>})

\* The gaps j (between token j and token j + 1) of E outside quoted literals.
Gaps(E) ==
  LET ta == Tokenize(E)
  IN {j \in 1..(Len(ta) - 1) :
        QuotesBefore(ta, j, "'") % 2 = 0 /\ QuotesBefore(ta, j, "\"") % 2 = 0}

\* E with a space between its tokens j and j + 1.
WithSpace(E, j) ==
  LET ta == Tokenize(E)
  IN Join(SubSeq(ta, 1, j)) \o <<" ">> \o Join(SubSeq(ta, j + 1, Len(ta)))

FamilyC8 == UNION {{WithSpace(E, j) : j \in Gaps(E)} : E \in SpacedPaths}

SpecC8 == InitOf(FamilyC8) /\ [][Next]_vars

\* C8: white space invariance: a space inserted between two adjacent tokens of
\* an expression, outside quoted literals, does not change the value-list the
\* evaluation returns.
C8_WhitespaceInvariance ==
  \A E \in SpacedPaths :
    \A j \in Gaps(E) :
      (pc = "done" /\ expression = WithSpace(E, j)) => result = Eval(E)

\* ------------------------------------------------------------------------
\* C9
\* ------------------------------------------------------------------------

FamilyC9 == {Desc(x) : x \in Steps} \cup {DotDesc(x) : x \in Steps}

SpecC9 == InitOf(FamilyC9) /\ [][Next]_vars

\* C9: axis composition: //x and .//x evaluated against the same element e
\* return the same value-list.
C9_AxisComposition ==
  \A x \in Steps :
    (pc = "done" /\ expression \in {Desc(x), DotDesc(x)}) =>
      /\ result = Eval(Desc(x))
      /\ result = Eval(DotDesc(x))

\* .//x against an element that is not the document element has found an
\* element.
C9_Witness ==
  /\ pc = "done"
  /\ el /= 1
  /\ \E x \in Names : expression = DotDesc(x) /\ result.vals /= <<>>

\* ------------------------------------------------------------------------
\* C10
\* ------------------------------------------------------------------------

\* //e/@*
AllAttributesOf(e) == Desc(e) \o <<"/", "@", "*">>

FamilyC10 == {AllAttributesOf(e) : e \in Steps}

SpecC10 == InitOf(FamilyC10) /\ [][Next]_vars

RECURSIVE AttributeCount(_)
\* The attributes of the elements of a value-list, counted.
AttributeCount(vals) ==
  IF vals = <<>> THEN 0
  ELSE Len(dom[Head(vals).id].attributes) + AttributeCount(Tail(vals))

\* C10: attribute totality: the value-list of //e/@* is as long as the
\* elements of //e have attributes altogether; equal values are all kept.
C10_AttributeTotality ==
  \A e \in Steps :
    (pc = "done" /\ expression = AllAttributesOf(e)) =>
      /\ result.threw = "none"
      /\ Eval(Desc(e)).threw = "none"
      /\ Len(result.vals) = AttributeCount(Eval(Desc(e)).vals)

\* //e/@* has returned the two equal attribute values of one element.
C10_Witness ==
  /\ pc = "done"
  /\ \E e \in Steps :
       /\ expression = AllAttributesOf(e)
       /\ Len(result.vals) >= 2
       /\ result.vals[1] = result.vals[2]

\* ------------------------------------------------------------------------
\* C11
\* ------------------------------------------------------------------------

\* Expressions with a [, a ( or a quote that is never closed.
UnclosedPaths ==
  {Desc(<<"x">>) \o <<"[">>,
   Desc(<<"x">>) \o <<"[", "1">>,
   Desc(<<"*">>) \o <<"[", "@", "b", "=", "'", "v", "'">>,
   <<"(">> \o Desc(<<"x">>),
   Desc(<<"x">>) \o <<"/", "(", "y">>,
   FnCount \o <<"(">> \o Desc(<<"x">>),
   <<"'", "v">>,
   Desc(<<"*">>) \o <<"[", "@", "b", "=", "'", "v", "]">>,
   Desc(<<"*">>) \o <<"[", "@", "b", "=", "\"", "v", "]">>,
   Desc(<<"x">>) \o Child(<<"y">>) \o <<"[", "1">>,
   Desc(<<"x">>) \o Child(<<"y">>) \o <<"[", "@", "b", "=", "'", "v", "]">>,
   Desc(<<"x">>) \o Child(<<"y">>) \o <<"/", "(", "x">>,
   Desc(<<"x">>) \o <<"/", "@", "b", "[", "1">>}

FamilyC11 == UnclosedPaths

SpecC11 == InitOf(FamilyC11) /\ [][Next]_vars

\* C11: an expression with an unclosed [, ( or quote raises XPatherException
\* for every root and every tree; no value-list is returned for it.
C11_UnclosedRaises ==
  (pc = "done" /\ expression \in UnclosedPaths) => result.threw = "XPatherException"

\* ------------------------------------------------------------------------
\* C12
\* ------------------------------------------------------------------------

\* Function names that are none of last, position, text, count, data.
UnknownFunctions == {<<"f">>, <<"L", "a", "s", "t">>}

\* Calls of an unknown function f: alone, as a step, and in a predicate.
UnknownCalls(f) ==
  {f \o <<"(", ")">>,
   Desc(<<"x">>) \o <<"/">> \o f \o <<"(", ")">>,
   Desc(<<"*">>) \o <<"/">> \o f \o <<"(", ")">>,
   Paren(Desc(<<"x">>)) \o <<"/">> \o f \o <<"(", ")">>,
   Desc(<<"x">>) \o <<"/", "@", "b", "/">> \o f \o <<"(", ")">>,
   f \o <<"(">> \o Desc(<<"x">>) \o <<")">>,
   Desc(<<"y">>) \o <<"[">> \o f \o <<"(", ")", "]">>}

FamilyC12 == UNION {UnknownCalls(f) : f \in UnknownFunctions}

SpecC12 == InitOf(FamilyC12) /\ [][Next]_vars

\* C12: a call of a function that is none of last, position, text, count,
\* data raises XPatherException, whatever value-list it is applied to, the
\* empty one included.
C12_UnknownFunctionRaises ==
  (pc = "done" /\ expression \in FamilyC12) => result.threw = "XPatherException"

\* ------------------------------------------------------------------------
\* C13
\* ------------------------------------------------------------------------

\* Expressions that yield strings or a number.
ValuePaths ==
  {Desc(<<"y">>) \o <<"/", "@", "b">>,
   Desc(<<"*">>) \o <<"/", "@", "*">>,
   <<"'", "v", "'">>,
   <<"1">>,
   Call(FnCount, Desc(<<"x">>))}

\* The attribute steps: @name and @*
AttributeSteps == {<<"@", "a">>, <<"@", "*">>}

\* S/@a and S//@a
AttChild(S, att) == S \o <<"/">> \o att
AttDesc(S, att) == S \o <<"/", "/">> \o att

FamilyC13 ==
  {AttChild(S, att) : S \in ValuePaths, att \in AttributeSteps}
  \cup {AttDesc(S, att) : S \in ValuePaths, att \in AttributeSteps}

SpecC13 == InitOf(FamilyC13) /\ [][Next]_vars

\* The value-list of S holds a value that is not an element.
HasNonElement(S) ==
  /\ Eval(S).threw = "none"
  /\ \E i \in 1..Len(Eval(S).vals) : ~isElement(Eval(S).vals[i])

\* C13: an attribute step whose input value-list holds a value that is not an
\* element raises XPatherException, reached by / and reached by //.
C13_AttributeOfNonElementRaises ==
  \A S \in ValuePaths, att \in AttributeSteps :
    (pc = "done" /\ expression \in {AttChild(S, att), AttDesc(S, att)} /\ HasNonElement(S)) =>
      result.threw = "XPatherException"

\* ------------------------------------------------------------------------
\* C14
\* ------------------------------------------------------------------------

\* The tree of document d detached from its Document: the root element has
\* a parentNode of null.
Detach(d) ==
  [id \in DOMAIN d \ {DocumentId} |->
     IF d[id].parentNode = DocumentId THEN [d[id] EXCEPT !.parentNode = Null] ELSE d[id]]

\* Trees whose root has no parent at all.
DetachedDocuments == {Detach(d) : d \in Documents}

\* The state before the XPather is constructed, for a tree of docs and an
\* expression of family.
InitIn(docs, family) ==
  /\ dom \in docs
  /\ el \in ElementsOf(dom)
  /\ expression \in family
  /\ tokenArray = <<>>
  /\ result = Pending
  /\ closingCall = NoCall
  /\ callStack = <<>>
  /\ steps = 0
  /\ pc = "new"

\* Expressions with the parent step, and expressions that fail.
ParentPaths ==
  {<<".", ".">>, <<"/", ".", ".">>, <<"/", "/", ".", ".">>,
   Desc(<<"y">>) \o <<"/", ".", ".">>,
   <<".", ".", "/", ".", ".">>,
   <<".", ".", "/", "@", "b">>}

FamilyC14 ==
  ParentPaths \cup {Desc(<<"x">>) \o <<"[">>, <<"f", "(", ")">>, <<"1", "/", "@", "a">>, <<"/">>}

SpecC14 == InitIn(Documents \cup DetachedDocuments, FamilyC14) /\ [][Next]_vars

\* el is the root of its tree: it has no parent element.
IsRoot(node) ==
  dom[node].parentNode = Null \/ dom[dom[node].parentNode].nodeType /= ELEMENT_NODE

\* C14: every failure of an evaluation is an XPatherException, and the parent
\* step .. applied to an element without a parent element (parentNode absent
\* or the Document) yields the empty list.
C14_SingleErrorKind ==
  (pc = "done" /\ expression \in FamilyC14) =>
    /\ result.threw \in {"none", "XPatherException"}
    /\ (expression = <<".", ".">> /\ IsRoot(el)) => result = Return(<<>>)

\* ------------------------------------------------------------------------
\* C15
\* ------------------------------------------------------------------------

\* The predicates put between [ and ]
Predicates ==
  {<<"1">>, <<"2">>, <<"1", ".", "5">>, <<"+">>,
   <<"@", "b">>, <<".">>, <<"y">>, <<"'", "s", "'">>,
   <<"@", "b", "=", "'", "v", "'">>,
   FnPosition \o <<"(", ")">>,
   FnPosition \o <<"(", ")", ">", "1">>,
   FnLast \o <<"(", ")">>}

\* The value-lists filtered: elements, and strings.
FilteredPaths == {Desc(<<"*">>), Desc(<<"x">>), Desc(<<"*">>) \o <<"/", "@", "b">>}

\* (E)[P]: the filter applied to the whole value-list of E
Filtered(E, P) == Paren(E) \o <<"[">> \o P \o <<"]">>

FamilyC15 == {Filtered(E, P) : E \in FilteredPaths, P \in Predicates}

SpecC15 == InitOf(FamilyC15) /\ [][Next]_vars

\* The predicate P evaluated on [v], v at 1-based index i of n values.
PredicateOn(P, v, i, n) ==
  evaluateAgainst(Tokenize(P), <<v>>, 0, Len(Tokenize(P)) - 1, FALSE, i, n, TRUE, <<v>>)

\* The list r is not empty and its first item is true, the number i, a
\* string or an element.
FirstItemKeeps(r, i) ==
  /\ r /= <<>>
  /\ \/ r[1].type = "boolean" /\ r[1].b
     \/ r[1].type = "number" /\ r[1] = Num(i, 0)
     \/ r[1].type = "string"
     \/ r[1].type = "element"

RECURSIVE KeptFrom(_, _, _)
\* The values of vals from index i on whose predicate keeps them.
KeptFrom(vals, P, i) ==
  IF i > Len(vals) THEN <<>>
  ELSE (IF FirstItemKeeps(PredicateOn(P, vals[i], i, Len(vals)).vals, i)
        THEN <<vals[i]>> ELSE <<>>)
       \o KeptFrom(vals, P, i + 1)

\* C15: the filter returns a subsequence of its value-list: the value v at
\* 1-based index i is kept iff the predicate on [v] gives a non-empty list
\* whose first item is true, the number i, a string or an element.
C15_FilterRule ==
  \A E \in FilteredPaths, P \in Predicates :
    (pc = "done" /\ expression = Filtered(E, P) /\ Eval(E).threw = "none") =>
      LET vals == Eval(E).vals
      IN IF \E i \in 1..Len(vals) : PredicateOn(P, vals[i], i, Len(vals)).threw /= "none"
         THEN result.threw /= "none"
         ELSE /\ result = Return(KeptFrom(vals, P, 1))
              /\ IsSubsequence(result.vals, vals)

\* (E)[@b='v'] has kept a value whose comparison is true and has dropped one
\* whose comparison is false.
C15_Witness ==
  /\ pc = "done"
  /\ result.threw = "none"
  /\ \E E \in FilteredPaths, P \in Predicates :
       /\ expression = Filtered(E, P)
       /\ Len(Eval(E).vals) >= 2
       /\ Len(result.vals) >= 1
       /\ Len(result.vals) < Len(Eval(E).vals)
       /\ P = <<"@", "b", "=", "'", "v", "'">>

\* ------------------------------------------------------------------------
\* C16
\* ------------------------------------------------------------------------

\* The comparison operators
Operators == {<<"=">>, <<"<">>, <<">">>, <<"<", "=">>, <<">", "=">>}

\* Left-hand sides that hand their value-list to the operator whatever the
\* subject is: literals, function calls, the self step and an element step.
PlainOperands ==
  {<<"2">>, <<"'", "v", "'">>, FnPosition \o <<"(", ")">>, <<".">>, <<"x">>}

\* Pairs of a left-hand and a right-hand side.  After a step the right-hand
\* side is a literal, which does not depend on what it is evaluated against.
OperandPairs ==
  {<<<<"2">>, <<"1", "0">>>>,
   <<<<"2">>, <<"'", "1", "0", "'">>>>,
   <<<<"'", "v", "'">>, <<"@", "b">>>>,
   <<FnPosition \o <<"(", ")">>, <<"2">>>>,
   <<<<".">>, <<"'", "t", "'">>>>,
   <<<<"x">>, <<"'", "t", "'">>>>,
   <<<<"@", "b">>, <<"'", "v", "'">>>>}

\* (//*)[L op R]
Compared(pair, op) == Filtered(Desc(<<"*">>), pair[1] \o op \o pair[2])

FamilyC16 == {Compared(pair, op) : pair \in OperandPairs, op \in Operators}

SpecC16 == InitOf(FamilyC16) /\ [][Next]_vars

\* The order of two values: of two numbers as numbers (none for NaN), of
\* anything else as strings; -1, 0, 1, or 2 for none.
OrderOf(a, b) ==
  IF a.type = "number" /\ b.type = "number"
  THEN IF a.nan \/ b.nan THEN 2
       ELSE IF a.m * Pow10(b.e) < b.m * Pow10(a.e) THEN 0 - 1
       ELSE IF a.m * Pow10(b.e) > b.m * Pow10(a.e) THEN 1
       ELSE 0
  ELSE localeCompare(toText(a), toText(b))

\* What the comparison of the operand lists l and r under op is to be.
Compares(l, r, op) ==
  /\ l /= <<>>
  /\ r /= <<>>
  /\ LET c == OrderOf(l[1], r[1])
     IN \/ op = <<"=">> /\ c = 0
        \/ op = <<"<">> /\ c = 0 - 1
        \/ op = <<">">> /\ c = 1
        \/ op = <<"<", "=">> /\ c \in {0 - 1, 0}
        \/ op = <<">", "=">> /\ c \in {0, 1}

\* The comparison pair[1] op pair[2] on the subject v at index i of n is one
\* boolean: that of its two operand lists on v.
OneBoolean(pair, op, v, i, n) ==
  PredicateOn(pair[1] \o op \o pair[2], v, i, n) =
    Return(<<Bool(Compares(PredicateOn(pair[1], v, i, n).vals,
                           PredicateOn(pair[2], v, i, n).vals, op))>>)

\* (//*)[L op R] keeps the subjects whose comparison is to be true.
KeepsTheTrue(pair, op) ==
  LET vals == Eval(Desc(<<"*">>)).vals
      n == Len(vals)
      flags == [i \in 1..n |-> Compares(PredicateOn(pair[1], vals[i], i, n).vals,
                                       PredicateOn(pair[2], vals[i], i, n).vals, op)]
  IN /\ result.threw = "none"
     /\ IsSubsequence(result.vals, vals)
     /\ \A i \in 1..n : flags[i] <=> includes(result.vals, vals[i])

DeeperDocuments ==
  UNION {{MakeDom(n, p, k) : p \in ParentVectors(n), k \in [1..n -> {1, 2}]}
         : n \in 1..(MaxNodes + 1)}

\* A single axis step: child or descendant, with ., * or an element name.
AxisSteps ==
  {Desc(<<"x">>), Desc(<<"*">>), Desc(<<".">>),
   Child(<<"x">>), Child(<<"*">>), Child(<<".">>),
   <<"*">>, <<"y">>}

FamilyC17 == AxisSteps

SpecC17 == InitIn(DeeperDocuments, FamilyC17) /\ [][Next]_vars

RECURSIVE Preorder(_)
RECURSIVE PreorderOfAll(_, _)
\* The elements of the subtree of node, in the order of a preorder walk.
Preorder(node) == <<node>> \o PreorderOfAll(getChildTagList(node), 1)
PreorderOfAll(nodes, i) ==
  IF i > Len(nodes) THEN <<>> ELSE Preorder(nodes[i]) \o PreorderOfAll(nodes, i + 1)

\* No value occurs twice in the list.
NoDuplicates(list) == \A i, j \in 1..Len(list) : list[i] = list[j] => i = j

\* C17: a single axis step applied to a root returns elements free of
\* duplicates and in document order, the order of a preorder walk.
C17_DocumentOrder ==
  (pc = "done" /\ expression \in AxisSteps) =>
    /\ result.threw = "none"
    /\ AllElements(result.vals)
    /\ NoDuplicates(result.vals)
    /\ IsSubsequence([i \in 1..Len(result.vals) |-> result.vals[i].id], Preorder(el))

\* ------------------------------------------------------------------------
\* C18
\* ------------------------------------------------------------------------

\* Largest number of tokens of the expressions the bracket matcher is run on.
MaxTokens == 4

\* The tokens of those expressions: the brackets, the quotes and the slash.
BracketTokens == {"(", ")", "[", "]", "'", "\"", "/"}

\* The expressions of 1 to MaxTokens of these tokens.
BracketStrings == UNION {[1..n -> BracketTokens] : n \in 1..MaxTokens}

\* The state before the XPather is constructed, for the bracket matcher.
InitC18 ==
  /\ dom = MakeDom(1, [j \in {1} |-> DocumentId], [j \in {1} |-> 1])
  /\ el = 1
  /\ expression \in BracketStrings
  /\ tokenArray = <<>>
  /\ result = Pending
  /\ closingCall = NoCall
  /\ callStack = <<>>
  /\ steps = 0
  /\ pc = "new"

\* findClosingIndex(from, to) on an opener, within the token array
FindClosingIndex ==
  /\ pc = "constructed"
  /\ \E from \in 0..(Len(tokenArray) - 1), to \in 0..(Len(tokenArray) - 1) :
       /\ from <= to
       /\ Tok(tokenArray, from) \in {<<"(">>, <<"[">>, <<"'">>, <<"\"">>, <<"/">>}
       /\ closingCall' = [from |-> from, to |-> to,
                      index |-> findClosingIndex(tokenArray, from, to)]
  /\ pc' = "matched"
  /\ steps' = steps + 1
  /\ UNCHANGED <<dom, el, expression, tokenArray, result, callStack>>

NextC18 == Construct \/ FindClosingIndex

SpecC18 == InitC18 /\ [][NextC18]_vars

\* The closer of an opener: ) for (, ] for [, the same quote for a quote and
\* / for /.
CloserOf(opener) ==
  IF opener = <<"(">> THEN <<")">> ELSE IF opener = <<"[">> THEN <<"]">> ELSE opener

RECURSIVE BalancedFrom(_, _, _, _, _)
\* The tokens i..j of ta are balanced, given the brackets open before i
\* (stack) and the quote open before i (<<>> for none): every bracket outside
\* quoted literals is closed by one of its own kind, in order, and every
\* quoted literal is closed.
BalancedFrom(ta, i, j, stack, quote) ==
  IF i > j THEN stack = <<>> /\ quote = <<>>
  ELSE LET t == Tok(ta, i)
       IN IF quote /= <<>>
          THEN BalancedFrom(ta, i + 1, j, stack, IF t = quote THEN <<>> ELSE quote)
          ELSE IF t \in {<<"'">>, <<"\"">>} THEN BalancedFrom(ta, i + 1, j, stack, t)
          ELSE IF t \in {<<"(">>, <<"[">>} THEN BalancedFrom(ta, i + 1, j, <<t>> \o stack, quote)
          ELSE IF t \in {<<")">>, <<"]">>}
          THEN /\ stack /= <<>>
               /\ CloserOf(Head(stack)) = t
               /\ BalancedFrom(ta, i + 1, j, Tail(stack), quote)
          ELSE BalancedFrom(ta, i + 1, j, stack, quote)

\* Token i closes the opener at from: it is the closer of the opener's kind
\* and, but inside a quoted literal, what lies between is balanced.
Closes(ta, from, i) ==
  /\ Tok(ta, i) = CloserOf(Tok(ta, from))
  /\ Tok(ta, from) \in {<<"'">>, <<"\"">>} \/ BalancedFrom(ta, from + 1, i - 1, <<>>, <<>>)

\* C18: the bracket matcher called on an opener at from with bound to returns
\* -1 or an index i with from < i <= to; tokens[i] is then the closer of the
\* opener's kind with balanced brackets and quoted literals between; it
\* returns -1 only when the range holds no such closer.
C18_MatcherFindsOwnCloser ==
  pc = "matched" =>
    /\ closingCall.index = 0 - 1 \/ (closingCall.from < closingCall.index /\ closingCall.index <= closingCall.to)
    /\ closingCall.index /= 0 - 1 => Closes(tokenArray, closingCall.from, closingCall.index)
    /\ closingCall.index = 0 - 1 =>
         ~ \E i \in (closingCall.from + 1)..closingCall.to : Closes(tokenArray, closingCall.from, i)

\* ------------------------------------------------------------------------
\* C19
\* ------------------------------------------------------------------------

\* The arguments of count(...): the children named x, all the children, the
\* attribute b.
CountArguments == {<<"x">>, <<"*">>, <<"@", "b">>}

\* The numbers a count is compared with
CountRange == 0..2

\* (//*)[count(A) = k]
CountIs(A, k) == Filtered(Desc(<<"*">>), Call(FnCount, A) \o <<"=">> \o IntLit(k))

\* .[count(A) = k]
SelfCountIs(A, k) == <<".", "[">> \o Call(FnCount, A) \o <<"=">> \o IntLit(k) \o <<"]">>

FamilyC19 ==
  {CountIs(A, k) : A \in CountArguments, k \in CountRange}
  \cup {SelfCountIs(A, k) : A \in CountArguments, k \in CountRange}
  \cup {Call(FnCount, Desc(<<"x">>))}

SpecC19 == InitOf(FamilyC19) /\ [][Next]_vars

\* The number of values of the argument A evaluated on [v] alone.
CountOn(A, v) == Len(PredicateOn(A, v, 1, 1).vals)

\* C19: the argument of count(...) is the token range up to the ) of the
\* call: the tokens after it, as the comparison of [count(A) = k], are no
\* part of it, and the predicate keeps the subjects with k values of A.
C19_ArgumentEndsAtCloser ==
  \A A \in CountArguments, k \in CountRange :
    /\ (pc = "done" /\ expression = CountIs(A, k)) =>
          result = Return(SelectSeq(Eval(Desc(<<"*">>)).vals, LAMBDA v : CountOn(A, v) = k))
    /\ (pc = "done" /\ expression = SelfCountIs(A, k)) =>
          result = Return(IF CountOn(A, Element(el)) = k THEN <<Element(el)>> ELSE <<>>)

\* ------------------------------------------------------------------------
\* C20
\* ------------------------------------------------------------------------

\* Pairs of a left-hand side (a literal, a function call, the self step, an
\* element step, an attribute step) and a right-hand side that depends on the
\* subject it is evaluated against.
SubjectPairs ==
  {<<<<"'", "v", "'">>, <<"@", "b">>>>,
   <<<<"'", "t", "'">>, <<".">>>>,
   <<FnPosition \o <<"(", ")">>, Call(FnCount, <<".">>)>>,
   <<<<".">>, <<".">>>>,
   <<<<"x">>, <<".">>>>,
   <<<<"@", "a">>, <<"@", "b">>>>}

FamilyC20 == {Compared(pair, <<"=">>) : pair \in SubjectPairs}

SpecC20 == InitOf(FamilyC20) /\ [][Next]_vars

\* C20: inside a predicate on the subject v the right-hand side of a
\* comparison is evaluated against [v], whatever the left-hand side is: the
\* predicate [L = R] keeps the subjects on which L and R compare equal.
C20_RightSideAgainstSubject ==
  \A pair \in SubjectPairs :
    (pc = "done" /\ expression = Compared(pair, <<"=">>)) =>
      /\ KeepsTheTrue(pair, <<"=">>)
      /\ \A i \in 1..Len(Eval(Desc(<<"*">>)).vals) :
           OneBoolean(pair, <<"=">>, Eval(Desc(<<"*">>)).vals[i], i, Len(Eval(Desc(<<"*">>)).vals))

\* ------------------------------------------------------------------------
\* C21
\* ------------------------------------------------------------------------

\* The tree of document d with two different attribute values on its y
\* elements: <y a="u" b="v">.
DistinctValues(d) ==
  [id \in DOMAIN d |->
     IF d[id].nodeName = <<"y">>
     THEN [d[id] EXCEPT !.attributes = <<[name |-> <<"a">>, value |-> <<"u">>],
                                         [name |-> <<"b">>, value |-> <<"v">>]>>]
     ELSE d[id]]

\* Trees whose elements have up to two attributes, of different values.
AttributeDocuments == {DistinctValues(d) : d \in Documents}

\* What follows the step @*: nothing, or a predicate.
Remainders ==
  {<<>>, <<"[", "1", "]">>, <<"[", "2", "]">>,
   <<"[">> \o FnLast \o <<"(", ")", "]">>,
   <<"[">> \o FnPosition \o <<"(", ")", "=", "2", "]">>,
   <<"[">> \o FnPosition \o <<"(", ")", "<", "2", "]">>}

\* //e/@*R
AllAttributesThen(e, R) == AllAttributesOf(e) \o R

FamilyC21 == {AllAttributesThen(e, R) : e \in {<<"y">>, <<"*">>}, R \in Remainders}

SpecC21 == InitIn(AttributeDocuments, FamilyC21) /\ [][Next]_vars

\* The attribute values of element e, in attribute order.
AttributeValues(e) == [i \in 1..Len(dom[e].attributes) |-> Str(dom[e].attributes[i].value)]

\* The remainder R evaluated against the value-list vals, outside a filter,
\* at position 1 of 1.
RemainderOn(R, vals) ==
  IF R = <<>> THEN vals
  ELSE evaluateAgainst(Tokenize(R), vals, 0, Len(Tokenize(R)) - 1, FALSE, 1, 1, FALSE,
                       Undefined).vals

RECURSIVE OncePerValue(_, _, _)
\* R evaluated against [a] for every value a of vals from index i on, the
\* results one after the other.
OncePerValue(R, vals, i) ==
  IF i > Len(vals) THEN <<>>
  ELSE RemainderOn(R, <<vals[i]>>) \o OncePerValue(R, vals, i + 1)

RECURSIVE PerAttribute(_, _, _)
\* For every element of elems from index i on, R once per attribute value.
PerAttribute(R, elems, i) ==
  IF i > Len(elems) THEN <<>>
  ELSE OncePerValue(R, AttributeValues(elems[i].id), 1) \o PerAttribute(R, elems, i + 1)

RECURSIVE PerElement(_, _, _)
\* For every element of elems from index i on, R once against the list of
\* all its attribute values.
PerElement(R, elems, i) ==
  IF i > Len(elems) THEN <<>>
  ELSE RemainderOn(R, AttributeValues(elems[i].id)) \o PerElement(R, elems, i + 1)

\* C21 as claimed: for the step @* on an element the remainder of the step is
\* evaluated once per attribute value a, against [a], and the results are
\* accumulated in attribute order: a positional predicate after @* sees each
\* value at position 1 of a list of size 1.
C21_OncePerAttribute ==
  \A e \in {<<"y">>, <<"*">>}, R \in Remainders :
    (pc = "done" /\ expression = AllAttributesThen(e, R)) =>
      result = Return(PerAttribute(R, Eval(Desc(e)).vals, 1))

\* C21 as amended: for the step @* on an element the remainder of the step is
\* evaluated once, against the list of all the attribute values of the
\* element in attribute order, and the results of the elements are
\* accumulated in order: a positional predicate after @* sees the k-th
\* attribute value of an element at position k of as many as it has.
C21_OncePerElement ==
  \A e \in {<<"y">>, <<"*">>}, R \in Remainders :
    (pc = "done" /\ expression = AllAttributesThen(e, R)) =>
      result = Return(PerElement(R, Eval(Desc(e)).vals, 1))

\* //y/@*[2] has returned the second attribute value of a y, which is not
\* its first.
C21_Witness ==
  /\ pc = "done"
  /\ expression = AllAttributesThen(<<"y">>, <<"[", "2", "]">>)
  /\ result.threw = "none"
  /\ Len(result.vals) >= 1
  /\ result.vals[1] = Str(<<"v">>)
  /\ Eval(AllAttributesOf(<<"y">>)).vals[1] = Str(<<"u">>)

\* ------------------------------------------------------------------------
\* C22
\* ------------------------------------------------------------------------

\* Largest number of characters of the tokens that are classified.
MaxChars == 3

\* The characters of those tokens: the signs, the point, the space, a digit.
LiteralChars == {"+", "-", ".", " ", "1"}

\* The expressions of one token of 1 to MaxChars of these characters.
LiteralTokens == UNION {[1..n -> LiteralChars] : n \in 1..MaxChars}

\* The state before the XPather is constructed, for a one-token expression
\* and the document of the single element <x>t</x>.
InitC22 ==
  /\ dom = MakeDom(1, [j \in {1} |-> DocumentId], [j \in {1} |-> 1])
  /\ el = 1
  /\ expression \in LiteralTokens
  /\ tokenArray = <<>>
  /\ result = Pending
  /\ closingCall = NoCall
  /\ callStack = <<>>
  /\ steps = 0
  /\ pc = "new"

SpecC22 == InitC22 /\ [][Next]_vars

\* The number of characters of s equal to c
CountOf(s, c) == Cardinality({i \in 1..Len(s) : s[i] = c})

\* An optional + or -, then one digit or more.
IntegerGrammar(s) ==
  LET body == IF s /= <<>> /\ Head(s) \in {"+", "-"} THEN Tail(s) ELSE s
  IN body /= <<>> /\ \A i \in 1..Len(body) : IsDigit(body[i])

\* An optional +, - or space, then digits with at most one decimal point, one
\* digit at least.
DoubleGrammar(s) ==
  LET body == IF s /= <<>> /\ Head(s) \in {"+", "-", " "} THEN Tail(s) ELSE s
  IN /\ \A i \in 1..Len(body) : IsDigit(body[i]) \/ body[i] = "."
     /\ CountOf(body, ".") <= 1
     /\ \E i \in 1..Len(body) : IsDigit(body[i])

\* The evaluation has replaced the token by a number.
IsOneNumber(r) == r.threw = "none" /\ Len(r.vals) = 1 /\ r.vals[1].type = "number"

\* C22: a token is an integer literal exactly when it is an optional + or -
\* and one digit or more, a double literal exactly when it is an optional +,
\* - or space and digits with at most one point and a digit at least; a token
\* without a digit or with two points is never replaced by a number.
C22_LiteralGrammar ==
  (pc = "done" /\ Len(tokenArray) = 1 /\ Trim(tokenArray[1]) /= <<>>) =>
    /\ isValidInteger(tokenArray[1]) <=> IntegerGrammar(tokenArray[1])
    /\ isValidDouble(tokenArray[1]) <=> DoubleGrammar(tokenArray[1])
    /\ IsOneNumber(result) <=> (IntegerGrammar(tokenArray[1]) \/ DoubleGrammar(tokenArray[1]))

\* ------------------------------------------------------------------------
\* C23
\* ------------------------------------------------------------------------

\* Largest number of calls of the evaluator that are open at once.
MaxDepth == 16

\* The arguments of one call of evaluateAgainst, or of getElementsByName
\* (whose source is obj; it takes no position, last or filterSource).
Frame(fn, obj, from, to, isRecursive, position, last, isFilterContext, filterSource) ==
  [fn |-> fn, obj |-> obj, from |-> from, to |-> to, isRecursive |-> isRecursive,
   position |-> position, last |-> last, isFilterContext |-> isFilterContext,
   filterSource |-> filterSource]

\* A call that has just been entered. phase is where the call stands in its
\* body, i and j count its loops (1-based), acc holds the values it has
\* gathered (result, resultSet, or the value to continue with), at is the
\* token index it found (closingBracket, closingQuote, toIndex) and refined
\* its refinedSubnodes.
Entered(f) ==
  [frame |-> f, phase |-> "entry", i |-> 1, j |-> 1, acc |-> <<>>, at |-> 0,
   refined |-> <<>>]

\* What a call does next: it makes a call (and waits for it as caller), or
\* returns a value-list, or throws.
Calls(caller, callee) == [op |-> "call", caller |-> caller, callee |-> callee]
Returns(value) == [op |-> "return", value |-> value]
Throws(kind) == [op |-> "throw", kind |-> kind]

\* The call of evaluateAgainst that call e makes on the rest of its range,
\* from the token after e.at, with the values of e.acc.
Continue(e, position) ==
  Calls([e EXCEPT !.phase = "tail"],
        Frame("evaluateAgainst", e.acc, e.at + 1, e.frame.to, FALSE, position, e.frame.last,
              e.frame.isFilterContext, e.frame.filterSource))

\* The step under // called again on node itself, not on its child elements.
recursiveTargets_sameNode(node) == <<node>>

\* The elements the recursive branch of getElementsByName calls itself on.
recursiveTargets(node) == getChildTagList(node)

\* The nodes of the attribute branch of getElementsByName.
AttributeNodes(f) == IF f.isRecursive THEN DescendantsOf(f.obj, 1, <<>>) ELSE f.obj

\* The subnodes of the element branch of getElementsByName for node, as a Set.
Subnodes(name, node) ==
  NewSet(IF name = <<".">> THEN <<node>>
         ELSE IF name = <<".", ".">>
         THEN (IF getParent(node).vals[1] /= Null THEN getParent(node).vals ELSE <<>>)
         ELSE IF name = <<"*">> THEN getChildTagList(node)
         ELSE getElementListByName(node, name, FALSE))

\* isSelf || isParent || isAll
IsSpecial(name) == name \in {<<".">>, <<".", ".">>, <<"*">>}

\* The dispatch of evaluateAgainst on the token at `from`, for the call e
\* that has just been entered: the call it makes first, or the loop it
\* begins, or its return or throw.
Dispatch(ta, e) ==
  LET f == e.frame
      from == f.from
      to == f.to
      closing == findClosingIndex(ta, from, to)
      tail == [e EXCEPT !.phase = "tail"]
      Again(obj, next, isRecursive, position) ==
        Calls(tail, Frame("evaluateAgainst", obj, next, to, isRecursive, position, f.last,
                          f.isFilterContext, f.filterSource))
  IN IF ~(from >= 0 /\ to < Len(ta) /\ from <= to)
     THEN Returns(IF f.obj /= Undefined THEN f.obj ELSE <<>>)
     ELSE IF Trim(Tok(ta, from)) = <<>>
     THEN Again(f.obj, from + 1, f.isRecursive, f.position)
     ELSE IF isToken(ta, <<"(">>, from)
     THEN IF closing > 0
          THEN Calls([e EXCEPT !.phase = "group", !.at = closing],
                     Frame("evaluateAgainst", f.obj, from + 1, closing - 1, FALSE, f.position,
                           f.last, f.isFilterContext, f.filterSource))
          ELSE Throws(throwStandardException.threw)
     ELSE IF isToken(ta, <<"[">>, from)
     THEN IF closing > 0
          THEN IF f.obj /= Undefined
               THEN [op |-> "loop", caller |-> [e EXCEPT !.phase = "filter", !.at = closing]]
               ELSE Again(<<>>, closing + 1, FALSE, f.position)
          ELSE Throws(throwStandardException.threw)
     ELSE IF isToken(ta, <<"\"">>, from) \/ isToken(ta, <<"'">>, from)
     THEN IF closing > from
          THEN Again(<<Str(flatten(ta, from + 1, closing - 1))>>, closing + 1, FALSE,
                     f.position)
          ELSE Throws(throwStandardException.threw)
     ELSE IF /\ \/ isToken(ta, <<"=">>, from)
                \/ isToken(ta, <<"<">>, from)
                \/ isToken(ta, <<">">>, from)
             /\ f.isFilterContext
     THEN LET two == /\ isToken(ta, <<"=">>, from + 1)
                     /\ (isToken(ta, <<"<">>, from) \/ isToken(ta, <<">">>, from))
          IN Calls([e EXCEPT !.phase = "compare", !.at = IF two THEN from + 1 ELSE from],
                   Frame("evaluateAgainst", f.filterSource, IF two THEN from + 2 ELSE from + 1,
                         to, FALSE, f.position, f.last, f.isFilterContext, f.filterSource))
     ELSE IF isToken(ta, <<"/">>, from)
     THEN LET goRecursive == isToken(ta, <<"/">>, from + 1)
              from1 == IF goRecursive THEN from + 1 ELSE from
              closing1 == findClosingIndex(ta, from1, to) - 1
              toIndex == IF closing1 <= from1 THEN to ELSE closing1
          IN IF from1 < to
             THEN Calls([e EXCEPT !.phase = "step", !.at = toIndex],
                        Frame("evaluateAgainst", f.obj, from1 + 1, toIndex, goRecursive, 1,
                              f.last, f.isFilterContext, f.filterSource))
             ELSE Throws(throwStandardException.threw)
     ELSE IF isFunctionCall(ta, from, to)
     THEN IF f.obj /= Undefined
          THEN [op |-> "loop",
                caller |-> [e EXCEPT !.phase = "function",
                                     !.at = findClosingIndex(ta, from + 1, to)]]
          ELSE Again(<<>>, findClosingIndex(ta, from + 1, to) + 1, FALSE, 1)
     ELSE IF isValidInteger(Tok(ta, from))
     THEN Again(<<parseInt(Tok(ta, from))>>, from + 1, FALSE, f.position)
     ELSE IF isValidDouble(Tok(ta, from))
     THEN Again(<<parseFloat(Tok(ta, from))>>, from + 1, FALSE, f.position)
     ELSE IF f.obj /= Undefined
     THEN [op |-> "loop",
           caller |-> [e EXCEPT !.phase = IF isAtt(Trim(Tok(ta, from)))
                                          THEN "attributes" ELSE "elements"]]
     ELSE Returns(<<>>)

RECURSIVE Loop(_, _)
\* What the call e does next from where it stands in a loop of
\* filterByCondition, evaluateFunction or getElementsByName, or after one.
Loop(ta, e) ==
  LET f == e.frame
      name == Trim(Tok(ta, f.from))
  IN IF e.phase = "filter"
     THEN IF e.i > Len(f.obj) THEN Continue(e, f.position)
          ELSE Calls(e, Frame("evaluateAgainst", filterObject(f.obj, f.obj[e.i]), f.from + 1,
                              e.at - 1, FALSE, filterIndex(e.i), Len(f.obj), TRUE,
                              <<f.obj[e.i]>>))
     ELSE IF e.phase = "function"
     THEN IF e.i > Len(f.obj) THEN Continue(e, 1)
          ELSE IF name = FnLast
          THEN Loop(ta, [e EXCEPT !.i = @ + 1,
                                  !.acc = Append(@, IF f.isFilterContext THEN Num(f.last, 0)
                                                    ELSE Num(Len(f.obj), 0))])
          ELSE IF name = FnPosition
          THEN Loop(ta, [e EXCEPT !.i = @ + 1,
                                  !.acc = Append(@, IF f.isFilterContext
                                                    THEN Num(f.position, 0)
                                                    ELSE Num(functionIndex(e.i), 0))])
          ELSE IF name = FnText
          THEN Loop(ta, [e EXCEPT !.i = @ + 1,
                                  !.acc = IF isElement(f.obj[e.i])
                                          THEN Append(@, Str(textContent(f.obj[e.i].id)))
                                          ELSE IF f.obj[e.i].type = "string"
                                          THEN Append(@, f.obj[e.i])
                                          ELSE @])
          ELSE IF name = FnCount \/ name = FnData
          THEN Calls(e, Frame("evaluateAgainst", f.obj, f.from + 2, f.to - 1, FALSE,
                              f.position, 0, f.isFilterContext, Undefined))
          ELSE Throws("XPatherException")
     ELSE IF e.phase = "attributes"
     THEN LET nodes == AttributeNodes(f)
              next == nodes[e.i]
              attValue == getAttributeByName(next.id, Tail(name))
              Rest(values) ==
                Calls(e, Frame("evaluateAgainst", values, f.from + 1, f.to, FALSE, 1, 1,
                               f.isFilterContext, Undefined))
          IN IF e.i > Len(nodes) THEN Returns(e.acc)
             ELSE IF ~isElement(next) THEN Throws(throwStandardException.threw)
             ELSE IF Tail(name) = <<"*">>
             THEN Rest([k \in 1..Len(getAttributes(next.id)) |->
                          Str(getAttributes(next.id)[k])])
             ELSE IF ~attValue.isNull THEN Rest(<<Str(attValue.value)>>)
             ELSE Loop(ta, [e EXCEPT !.i = @ + 1])
     ELSE IF e.phase = "elements"
     THEN IF e.i > Len(f.obj) THEN Returns(e.acc)
          ELSE IF ~isElement(f.obj[e.i]) THEN Throws(throwStandardException.threw)
          ELSE IF name = <<".", ".">> /\ getParent(f.obj[e.i].id).threw /= "none"
          THEN Throws(getParent(f.obj[e.i].id).threw)
          ELSE LET nodeSet == Subnodes(name, f.obj[e.i].id)
               IN Calls([e EXCEPT !.phase = "refined"],
                        Frame("evaluateAgainst", [k \in 1..Len(nodeSet) |-> Element(nodeSet[k])],
                              f.from + 1, f.to, FALSE, e.i, Len(nodeSet), f.isFilterContext,
                              Undefined))
     ELSE IF e.phase = "children"
     THEN LET childTags == recursiveTargets(f.obj[e.i].id)
          IN IF e.j > Len(childTags)
             THEN Loop(ta, [e EXCEPT !.phase = "elements", !.i = @ + 1, !.j = 1])
             ELSE Calls(e, Frame("getElementsByName", <<Element(childTags[e.j])>>, f.from,
                                 f.to, TRUE, 0, 0, f.isFilterContext, Undefined))
     ELSE IF e.phase = "continue" THEN Continue(e, f.position)
     ELSE IF e.phase = "continue1" THEN Continue(e, 1)
     ELSE Returns(e.acc)

\* What the call e does next.
Move(ta, e) ==
  IF e.phase /= "entry" THEN Loop(ta, e)
  ELSE IF e.frame.fn = "getElementsByName"
  THEN Loop(ta, [e EXCEPT !.phase = IF isAtt(Trim(Tok(ta, e.frame.from)))
                                    THEN "attributes" ELSE "elements"])
  ELSE IF Dispatch(ta, e).op = "loop" THEN Loop(ta, Dispatch(ta, e).caller)
  ELSE Dispatch(ta, e)

\* The call e, waiting for a call it made, once that call has returned value.
Receive(ta, e, value) ==
  LET f == e.frame
      name == Trim(Tok(ta, f.from))
      curr == f.obj[e.i]
  IN IF e.phase = "tail" THEN [e EXCEPT !.phase = "return", !.acc = value]
     ELSE IF e.phase = "group" THEN [e EXCEPT !.phase = "continue", !.acc = value]
     ELSE IF e.phase = "step" THEN [e EXCEPT !.phase = "continue1", !.acc = value]
     ELSE IF e.phase = "compare"
     THEN [e EXCEPT !.phase = "return",
                    !.acc = <<Bool(evaluateLogic(f.obj, value,
                                                 flatten(ta, f.from, e.at)))>>]
     ELSE IF e.phase = "filter"
     THEN [e EXCEPT !.i = @ + 1,
                    !.acc = IF filterKeepsList(value, filterIndex(e.i))
                            THEN Append(@, curr) ELSE @]
     ELSE IF e.phase = "function"
     THEN [e EXCEPT !.i = @ + 1,
                    !.acc = IF name = FnCount THEN Append(@, Num(Len(value), 0))
                            ELSE @ \o dataItems(value)]
     ELSE IF e.phase = "attributes"
     THEN [e EXCEPT !.i = @ + 1, !.acc = @ \o value]
     ELSE IF e.phase = "refined"
     THEN IF f.isRecursive
          THEN [e EXCEPT !.phase = "children", !.j = 1, !.refined = value,
                         !.acc = IF IsSpecial(name) THEN addAll(@, value) ELSE @]
          ELSE [e EXCEPT !.phase = "elements", !.i = @ + 1, !.acc = addAll(@, value)]
     ELSE LET childTag == Element(recursiveTargets(curr.id)[e.j])
          IN [e EXCEPT !.j = @ + 1,
                       !.acc = addAll(IF ~IsSpecial(name) /\ includes(e.refined, childTag)
                                      THEN addAll(@, <<childTag>>) ELSE @,
                                      value)]

\* The call that is running, and what it does next.
Top == callStack[Len(callStack)]
TopMove == Move(tokenArray, Top)

\* evaluateAgainstNode(el) enters evaluateAgainst on the whole token array.
Enter ==
  /\ pc = "constructed"
  /\ callStack' = <<Entered(Frame("evaluateAgainst", <<Element(el)>>, 0, Len(tokenArray) - 1,
                                  FALSE, 1, 0, FALSE, Undefined))>>
  /\ pc' = "running"
  /\ steps' = steps + 1
  /\ UNCHANGED <<dom, el, expression, tokenArray, result, closingCall>>

\* The running call makes its next call of the evaluator.
CallNext ==
  /\ pc = "running"
  /\ TopMove.op = "call"
  /\ Len(callStack) < MaxDepth
  /\ callStack' = Append([callStack EXCEPT ![Len(callStack)] = TopMove.caller],
                         Entered(TopMove.callee))
  /\ steps' = steps + 1
  /\ UNCHANGED <<dom, el, expression, tokenArray, result, closingCall, pc>>

\* The running call returns its value-list to the call that waits for it; the
\* outermost call returns it to the caller of evaluateAgainstNode.
ReturnToCaller ==
  /\ pc = "running"
  /\ TopMove.op = "return"
  /\ IF Len(callStack) = 1
     THEN /\ callStack' = <<>>
          /\ pc' = "done"
          /\ result' = Return(TopMove.value)
     ELSE /\ callStack' = [SubSeq(callStack, 1, Len(callStack) - 1)
                             EXCEPT ![Len(callStack) - 1] =
                               Receive(tokenArray, callStack[Len(callStack) - 1],
                                       TopMove.value)]
          /\ UNCHANGED <<pc, result>>
  /\ steps' = steps + 1
  /\ UNCHANGED <<dom, el, expression, tokenArray, closingCall>>

\* The running call throws: no call catches, the evaluation ends.
Raise ==
  /\ pc = "running"
  /\ TopMove.op = "throw"
  /\ callStack' = <<>>
  /\ pc' = "done"
  /\ result' = Throw(TopMove.kind)
  /\ steps' = steps + 1
  /\ UNCHANGED <<dom, el, expression, tokenArray, closingCall>>

NextC23 == Construct \/ Enter \/ CallNext \/ ReturnToCaller \/ Raise

\* //*[.//x/@b = 'w'], (//y)[2]/.., count(//x/.) and the like: every case of
\* the evaluator, with those that raise.
FamilyC23 ==
  {Desc(<<"*">>) \o <<"[">> \o DotDesc(<<"x">>) \o <<"/", "@", "b", "=", "'", "w", "'", "]">>,
   Paren(Desc(<<"y">>)) \o <<"[", "2", "]", "/", ".", ".">>,
   Call(FnCount, Desc(<<"x">>) \o <<"/", ".">>),
   Call(FnData, Desc(<<"*">>) \o <<"/", "@", "*">>),
   Desc(<<"x">>) \o <<"/">> \o Call(FnText, <<>>),
   Desc(<<"*">>) \o <<"[">> \o Call(FnPosition, <<>>) \o <<" ", "<", "=", " ", "1", ".", "5", "]">>,
   Desc(<<"*">>) \o <<"[">> \o Call(FnLast, <<>>) \o <<"]">>,
   Desc(<<"@", "a">>) \o <<"[", ".", "=", "\"", "v", "\"", "]">>,
   Desc(<<"y">>) \o Desc(<<"x">>),
   Desc(<<"x">>) \o <<"[", "1">>,
   Desc(<<"@", "a">>) \o <<"/", "x">>,
   <<"f", "(", ")">>,
   Desc(<<"*">>) \o <<"[", ".", "=", "]">>,
   <<"(", " ", ")", "/", "*", "/", "*">>,
   <<"/">>}

\* A step of NextC23 can be taken: a call that is running always has one (it
\* calls, returns or throws) while fewer than MaxDepth calls are open.
CanStep ==
  \/ pc \in {"new", "constructed"}
  \/ pc = "running" /\ Len(callStack) < MaxDepth

\* A step that can be taken, counted. Every step of NextC23 counts one.
Runs == CanStep /\ steps' = steps + 1

\* The running of the evaluator call by call. The evaluation runs on while
\* it has a step to take: a step of NextC23 is enabled whenever CanStep holds
\* and every one adds to steps, so the fairness is no more than that of
\* NextC23.
SpecC23 == InitOf(FamilyC23) /\ [][NextC23]_vars /\ WF_steps(Runs)

\* The call moves the cursor on and keeps the end of the range.
Advances(caller, callee) == callee.from > caller.from /\ callee.to = caller.to

\* The call is given a range inside its caller's, ending before it.
Narrows(caller, callee) == callee.from > caller.from /\ callee.to < caller.to

\* The call is the same step on a child element of an element of its caller.
Descends(caller, callee) ==
  /\ callee.fn = "getElementsByName"
  /\ callee.from = caller.from /\ callee.to = caller.to
  /\ Len(callee.obj) = 1 /\ isElement(callee.obj[1])
  /\ \E i \in 1..Len(caller.obj) :
       /\ isElement(caller.obj[i])
       /\ includes(getChildTagList(caller.obj[i].id), callee.obj[1].id)

\* The call that is running has just been entered, with from > to.
PastTheEnd ==
  /\ pc = "running"
  /\ Top.phase = "entry"
  /\ Top.frame.fn = "evaluateAgainst"
  /\ Top.frame.from > Top.frame.to

\* A value-list, or an error raised.
ValueListOrError(r) ==
  \/ r.threw \in {"XPatherException", "Error"} /\ r.vals = <<>>
  \/ r.threw = "none" /\ \A i \in 1..Len(r.vals) :
       r.vals[i].type \in {"element", "string", "number", "boolean"}

\* C23: the evaluation of an expression against an element of a document
\* terminates, with a value-list or an error raised (those of
\* evaluateAgainstNode); every call the evaluator makes of itself advances the
\* cursor under the same `to`, or narrows the range, or descends to a child
\* element; and a call with from > to makes no call and returns the
\* value-list it was given (the empty one, `obj || []`, when it was given
\* none: the right side of [.=]).
C23_Terminates ==
  /\ pc = "new" ~> pc = "done"
  /\ [](pc = "done" =>
          /\ callStack = <<>>
          /\ ValueListOrError(result)
          /\ result = evaluateAgainstNode(tokenArray, el))
  /\ [][(pc = "running" /\ Len(callStack') = Len(callStack) + 1) =>
          LET caller == Top.frame
              callee == callStack'[Len(callStack')].frame
          IN \/ Advances(caller, callee)
             \/ Narrows(caller, callee)
             \/ Descends(caller, callee)]_vars
  /\ [](PastTheEnd =>
          TopMove = Returns(IF Top.frame.obj /= Undefined THEN Top.frame.obj ELSE <<>>))

\* C23 witness: under // the step has descended twice from the element to a
\* grandchild, and the call that is running has from > to.
C23_Witness ==
  /\ PastTheEnd
  /\ \E i \in 1..(Len(callStack) - 3) :
       /\ Descends(callStack[i].frame, callStack[i + 1].frame)
       /\ Descends(callStack[i + 1].frame, callStack[i + 2].frame)

\* ------------------------------------------------------------------------
\* Every family together
\* ------------------------------------------------------------------------

Init ==
  InitOf(FamilyC1 \cup FamilyC2 \cup FamilyC3 \cup FamilyC4 \cup FamilyC5 \cup FamilyC6
         \cup FamilyC7 \cup FamilyC8 \cup FamilyC9 \cup FamilyC10 \cup FamilyC11
         \cup FamilyC12 \cup FamilyC13 \cup FamilyC14 \cup FamilyC15 \cup FamilyC16
         \cup FamilyC17 \cup FamilyC19 \cup FamilyC20 \cup FamilyC21
         \cup FamilyC23)

Spec == Init /\ [][Next]_vars

====
